---------------------------- MODULE Spec2Model ----------------------------
(***************************************************************************)
(* Verification model of LearnCC (a LevelDB study copy).                   *)
(*                                                                         *)
(* Part 1: util/cache.cc -- HandleTable, LRUCache, ShardedLRUCache.        *)
(* Parts 2-7: util/coding, db/dbformat.cc, MemTable, BlockBuilder, the     *)
(* filter block and table/format.                                          *)
(*                                                                         *)
(* Heap objects (LRUHandle) are addressed by small integers handed out by  *)
(* malloc in allocation order; NULL is 0.  The circular doubly linked LRU  *)
(* list with dummy head lru_ is the sequence of its elements from          *)
(* lru_.next (oldest) to lru_.prev (newest); a hash bucket chain is the    *)
(* sequence of its elements from list_[i] along next_hash.                 *)
(***************************************************************************)
EXTENDS Integers, Sequences, FiniteSets, TLC

(***************************************************************************)
(* Bounds of the model.                                                    *)
(***************************************************************************)
\* Number of LRUHandle allocations (Insert calls) in one behaviour.
MaxEntries == 4
\* Largest charge passed to Insert.
MaxCharge == 2
\* Capacity passed to NewLRUCache (2 per shard).
CacheCapacity == 17
\* Number of handles the callers hold at the same time.
MaxHeld == 2
\* Number of NewId calls in one behaviour.
MaxIds == 4
\* Largest sequence number of an internal key.
MaxSeq == 3
\* Number of MemTable::Add calls in one behaviour.
MaxAdds == 3
\* Number of records added to a block.
MaxRecords == 3
\* Largest options_->block_restart_interval.
MaxInterval == 2
\* Number of 2048-byte ranges of block offsets given to StartBlock.
MaxBuckets == 3
\* Number of AddKey calls on a filter block.
MaxKeys == 2
\* Largest offset a damaged filter offset table holds.
MaxWord == 1
\* Number of damaged bytes in the handles of a footer, in a stored block.
MaxDamage == 1
\* Number of Schedule calls.
MaxSchedules == 3
\* Largest number of mmap slots of a limiter.
MaxSlots == 2

(***************************************************************************)
(* Program constants.                                                      *)
(***************************************************************************)
kNumShardBits == 4
kNumShards == 2 ^ kNumShardBits
\* Initial (and minimal) bucket count chosen by HandleTable::Resize.
kMinTableLength == 4

NULL == 0

Keys == {"a", "b", "c"}
Charges == 1 .. MaxCharge
Handles == 1 .. MaxEntries
\* The value of an entry is a pointer to an object its caller allocated for
\* that Insert: the n-th Insert passes object n.
Values == 1 .. MaxEntries

\* ShardedLRUCache::HashSlice.  The hash function itself (util/hash.cc) is
\* outside this model; the table fixes 32-bit hashes for the model's keys so
\* that "a", "b" and "c" fall into shard 1, "a" and "b" with the same hash
\* (the key comparison of FindPointer tells them apart), "c" with another
\* hash of the same bucket of a 4-bucket table, and "d" falls into shard 2.
HashSlice(key) ==
    CASE key = "a" -> 1 * 2^28 + 1
      [] key = "b" -> 1 * 2^28 + 1
      [] key = "c" -> 1 * 2^28 + 5
      [] OTHER     -> 2 * 2^28 + 5

\* ShardedLRUCache::Shard: hash >> (32 - kNumShardBits).
Shard(hash) == hash \div 2 ^ (32 - kNumShardBits)

(***************************************************************************)
(* LRUHandle.  state: "none" (never allocated), "live", "freed".           *)
(***************************************************************************)
NoHandle ==
    [state |-> "none", key |-> "", hash |-> 0, value |-> 0, charge |-> 0,
     refs |-> 0]

\* The memory of an entry after free(e): its contents are no longer the
\* entry's.
FreedHandle ==
    [state |-> "freed", key |-> "", hash |-> 0, value |-> 0, charge |-> 0,
     refs |-> 0]

(***************************************************************************)
(* Sequence helpers.                                                       *)
(***************************************************************************)
SeqRemove(s, x) == SelectSeq(s, LAMBDA y : y # x)

SeqRemoveAt(s, i) ==
    [j \in 1 .. (Len(s) - 1) |-> IF j < i THEN s[j] ELSE s[j + 1]]

SeqSet(s) == {s[i] : i \in 1 .. Len(s)}

(***************************************************************************)
(* HandleTable: record [length_, elems_, list_], list_ a sequence of       *)
(* length_ chains (bucket i of the code is list_[i + 1]).                  *)
(***************************************************************************)
RECURSIVE ResizeLength(_, _)
\* The doubling loop of Resize: smallest 4 * 2^n that is >= elems.
ResizeLength(new_length, elems) ==
    IF new_length < elems THEN ResizeLength(new_length * 2, elems)
    ELSE new_length

RECURSIVE Rehash(_, _, _, _)
\* The relinking loop of Resize over the handles of the old table in bucket
\* order, chain order: each is pushed at the front of its new bucket.
Rehash(hs, new_list, new_length, heap) ==
    IF hs = << >> THEN new_list
    ELSE LET h == Head(hs)
             b == (heap[h].hash % new_length) + 1
         IN Rehash(Tail(hs),
                   [new_list EXCEPT ![b] = <<h>> \o new_list[b]],
                   new_length, heap)

RECURSIVE Flatten(_)
Flatten(chains) ==
    IF chains = << >> THEN << >> ELSE Head(chains) \o Flatten(Tail(chains))

HT_Resize(t, heap) ==
    LET new_length == ResizeLength(kMinTableLength, t.elems_)
        empty == [i \in 1 .. new_length |-> << >>]
    IN [length_ |-> new_length,
        elems_  |-> t.elems_,
        list_   |-> Rehash(Flatten(t.list_), empty, new_length, heap)]

\* HandleTable::HandleTable(): length_(0), elems_(0), list_(NULL), Resize().
HT_New == HT_Resize([length_ |-> 0, elems_ |-> 0, list_ |-> << >>],
                    [h \in {} |-> NoHandle])

RECURSIVE ChainFind(_, _, _, _, _)
\* The walk of FindPointer along one chain: index of the first element with
\* the hash and the key, Len(chain) + 1 (the trailing slot) if there is none.
ChainFind(chain, i, key, hash, heap) ==
    IF i > Len(chain) THEN i
    ELSE IF heap[chain[i]].hash # hash \/ heap[chain[i]].key # key
         THEN ChainFind(chain, i + 1, key, hash, heap)
         ELSE i

\* HandleTable::FindPointer: the slot as (bucket, index in chain).
HT_FindPointer(t, key, hash, heap) ==
    LET b == (hash % t.length_) + 1
    IN [b |-> b, i |-> ChainFind(t.list_[b], 1, key, hash, heap)]

\* *ptr
HT_Deref(t, ptr) ==
    IF ptr.i <= Len(t.list_[ptr.b]) THEN t.list_[ptr.b][ptr.i] ELSE NULL

HT_Lookup(t, key, hash, heap) ==
    HT_Deref(t, HT_FindPointer(t, key, hash, heap))

\* Insert linking h at the head of its bucket and leaving old in the chain.
HT_Insert_KeepOld(t, h, heap) ==
    LET ptr == HT_FindPointer(t, heap[h].key, heap[h].hash, heap)
        old == HT_Deref(t, ptr)
        t1 == [t EXCEPT !.list_[ptr.b] = <<h>> \o @]
        t2 == [t1 EXCEPT !.elems_ = t.elems_ + 1]
    IN [t |-> IF old # NULL THEN t1
              ELSE IF t2.elems_ > t2.length_ THEN HT_Resize(t2, heap)
              ELSE t2,
        old |-> old]

\* HandleTable::Insert: [t |-> table, old |-> replaced handle or NULL].
HT_Insert(t, h, heap) ==
    LET ptr == HT_FindPointer(t, heap[h].key, heap[h].hash, heap)
        old == HT_Deref(t, ptr)
        chain == t.list_[ptr.b]
        linked == IF old = NULL THEN Append(chain, h)
                  ELSE [chain EXCEPT ![ptr.i] = h]
        t1 == [t EXCEPT !.list_[ptr.b] = linked]
        t2 == [t1 EXCEPT !.elems_ = t.elems_ + 1]
    IN [t |-> IF old # NULL THEN t1
              ELSE IF t2.elems_ > t2.length_ THEN HT_Resize(t2, heap)
              ELSE t2,
        old |-> old]

\* HandleTable::Remove: [t |-> table, result |-> removed handle or NULL].
HT_Remove(t, key, hash, heap) ==
    LET ptr == HT_FindPointer(t, key, hash, heap)
        result == HT_Deref(t, ptr)
    IN [t |-> IF result = NULL THEN t
              ELSE [t EXCEPT !.list_[ptr.b] = SeqRemoveAt(@, ptr.i),
                             !.elems_ = @ - 1],
        result |-> result]


(***************************************************************************)
(* LRUCache (one shard): record [capacity_, usage_, lru_, table_].         *)
(* The private methods work on a state st = [heap, c, deleted, ok]: the    *)
(* heap of LRUHandles, the shard, the number of deleter invocations per    *)
(* entry, and ok = no assert has failed.                                    *)
(***************************************************************************)
\* LRUCache::LRUCache() followed by SetCapacity(capacity).
LRUCache_New(capacity) ==
    [capacity_ |-> capacity, usage_ |-> 0, lru_ |-> << >>, table_ |-> HT_New]

\* LRUCache::LRU_Remove: unlink e from the list.
LRU_Remove(c, e) == [c EXCEPT !.lru_ = SeqRemove(@, e)]

\* LRUCache::LRU_Append: make e the newest entry (lru_.prev).
LRU_Append(c, e) == [c EXCEPT !.lru_ = Append(@, e)]

\* Unref freeing an entry that still has one reference left.
Unref_FreeEarly(st, e) ==
    IF st.heap[e].refs <= 0 THEN [st EXCEPT !.ok = FALSE]
    ELSE IF st.heap[e].refs - 1 <= 1
         THEN [st EXCEPT !.c.usage_ = @ - st.heap[e].charge,
                         !.deleted[e] = @ + 1,
                         !.heap[e] = FreedHandle]
         ELSE [st EXCEPT !.heap[e].refs = @ - 1]

\* Unref without usage_ -= e->charge.
Unref_KeepUsage(st, e) ==
    IF st.heap[e].refs <= 0 THEN [st EXCEPT !.ok = FALSE]
    ELSE IF st.heap[e].refs - 1 <= 0
         THEN [st EXCEPT !.deleted[e] = @ + 1,
                         !.heap[e] = FreedHandle]
         ELSE [st EXCEPT !.heap[e].refs = @ - 1]

\* LRUCache::Unref.  A reference dropped on an entry whose count is already
\* 0 fails the assert.  At zero: usage_ -= charge, the deleter runs, free(e).
Unref(st, e) ==
    IF st.heap[e].refs <= 0 THEN [st EXCEPT !.ok = FALSE]
    ELSE IF st.heap[e].refs - 1 <= 0
         THEN [st EXCEPT !.c.usage_ = @ - st.heap[e].charge,
                         !.deleted[e] = @ + 1,
                         !.heap[e] = FreedHandle]
         ELSE [st EXCEPT !.heap[e].refs = @ - 1]

\* LRUCache::Lookup, the table search: e = table_.Lookup(key, hash).
Lookup_Find(st, key, hash) == HT_Lookup(st.c.table_, key, hash, st.heap)

\* The hit branch without the move to the newest position.
Lookup_Ref_NoMove(st, e) == [st EXCEPT !.heap[e].refs = @ + 1]

\* LRUCache::Lookup, the hit branch: e->refs++; LRU_Remove(e); LRU_Append(e).
Lookup_Ref(st, e) ==
    [st EXCEPT !.heap[e].refs = @ + 1,
               !.c = LRU_Append(LRU_Remove(st.c, e), e)]

\* Lookup without e->refs++.
Lookup_NoRef(st, key, hash) ==
    LET e == Lookup_Find(st, key, hash)
    IN [st |-> IF e # NULL
               THEN [st EXCEPT !.c = LRU_Append(LRU_Remove(st.c, e), e)]
               ELSE st,
        ret |-> e]

\* LRUCache::Lookup: [st |-> state after, ret |-> handle or NULL].
Lookup(st, key, hash) ==
    LET e == Lookup_Find(st, key, hash)
    IN [st |-> IF e # NULL THEN Lookup_Ref(st, e) ELSE st, ret |-> e]

\* LRUCache::Release.
Release(st, handle) == Unref(st, handle)

\* The allocation without usage_ += charge.
Insert_Link_NoCharge(st, key, hash, value, charge, e) ==
    [st EXCEPT !.heap[e] = [state |-> "live", key |-> key, hash |-> hash,
                            value |-> value, charge |-> charge, refs |-> 2],
               !.c = LRU_Append(st.c, e)]

\* LRUCache::Insert, allocation: e (the address malloc returned) is filled
\* in with refs = 2, appended to the LRU list, and charged to usage_.
Insert_Link(st, key, hash, value, charge, e) ==
    [st EXCEPT !.heap[e] = [state |-> "live", key |-> key, hash |-> hash,
                            value |-> value, charge |-> charge, refs |-> 2],
               !.c = [LRU_Append(st.c, e) EXCEPT !.usage_ = @ + charge]]

\* The replaced entry dropped from the index but left in the LRU list.
Insert_Replace_KeepInList(st, e) ==
    LET r == HT_Insert(st.c.table_, e, st.heap)
        st1 == [st EXCEPT !.c.table_ = r.t]
    IN IF r.old # NULL THEN Unref(st1, r.old) ELSE st1

\* LRUCache::Insert, table_.Insert(e) and the removal of the entry it
\* replaced.
Insert_Replace(st, e) ==
    LET r == HT_Insert(st.c.table_, e, st.heap)
        st1 == [st EXCEPT !.c.table_ = r.t]
    IN IF r.old # NULL
       THEN Unref([st1 EXCEPT !.c = LRU_Remove(st1.c, r.old)], r.old)
       ELSE st1

\* The eviction loop going on only while an entry no caller holds (refs 1)
\* is left in the list.
Insert_MustEvict_Unpinned(st) ==
    /\ st.c.usage_ > st.c.capacity_
    /\ \E h \in SeqSet(st.c.lru_) : st.heap[h].refs = 1

\* The condition of the eviction loop: usage_ > capacity_ && lru_.next != &lru_.
Insert_MustEvict(st) ==
    st.c.usage_ > st.c.capacity_ /\ st.c.lru_ # << >>

\* One iteration of the eviction loop on old = lru_.next.
Insert_EvictOne(st) ==
    LET old == Head(st.c.lru_)
        st1 == [st EXCEPT !.c = LRU_Remove(st.c, old)]
        r == HT_Remove(st1.c.table_, st1.heap[old].key, st1.heap[old].hash,
                       st1.heap)
    IN Unref([st1 EXCEPT !.c.table_ = r.t], old)

\* The eviction loop never entered.
Insert_EvictLoop_Skip(st) == st

RECURSIVE Insert_EvictLoop(_)
Insert_EvictLoop(st) ==
    IF Insert_MustEvict(st) /\ st.ok
    THEN Insert_EvictLoop(Insert_EvictOne(st))
    ELSE st

\* Insert with "if" for the "while" of the eviction loop.
Insert_EvictOnce(st, key, hash, value, charge, e) ==
    LET st1 == Insert_Replace(Insert_Link(st, key, hash, value, charge, e), e)
    IN [st |-> IF Insert_MustEvict(st1) THEN Insert_EvictOne(st1) ELSE st1,
        ret |-> e]

\* LRUCache::Insert: [st |-> state after, ret |-> e].
Insert(st, key, hash, value, charge, e) ==
    [st |-> Insert_EvictLoop(
                Insert_Replace(
                    Insert_Link(st, key, hash, value, charge, e), e)),
     ret |-> e]

\* LRUCache::Erase, after e = table_.Remove(key, hash) found an entry.
Erase_Unlink(st, e) == Unref([st EXCEPT !.c = LRU_Remove(st.c, e)], e)

\* Erase without Unref(e).
Erase_NoUnref(st, key, hash) ==
    LET r == HT_Remove(st.c.table_, key, hash, st.heap)
        st1 == [st EXCEPT !.c.table_ = r.t]
    IN IF r.result # NULL THEN [st1 EXCEPT !.c = LRU_Remove(st1.c, r.result)]
       ELSE st1

\* LRUCache::Erase.
Erase(st, key, hash) ==
    LET r == HT_Remove(st.c.table_, key, hash, st.heap)
        st1 == [st EXCEPT !.c.table_ = r.t]
    IN IF r.result # NULL THEN Erase_Unlink(st1, r.result) ELSE st1

(***************************************************************************)
(* Part 2: byte strings and util/coding (Slice, std::string are sequences  *)
(* of bytes 0..255).                                                       *)
(***************************************************************************)
\* The bytes s[from .. Len(s)] (1-based), empty when from is past the end.
Drop(s, n) == SubSeq(s, n + 1, Len(s))

\* The first n bytes of s.
Take(s, n) == SubSeq(s, 1, n)

RECURSIVE EncodeFixed(_, _)
\* EncodeFixed32 and its like: n bytes, least significant first.
EncodeFixed(v, n) ==
    IF n = 0 THEN << >> ELSE <<v % 256>> \o EncodeFixed(v \div 256, n - 1)

EncodeFixed32(v) == EncodeFixed(v, 4)

\* A uint64_t is kept as its four 16-bit words, least significant first: the
\* integers of the checker are narrower than 64 bits.
U64(n) == <<n % 65536, n \div 65536, 0, 0>>

RECURSIVE U64Compare(_, _, _)
\* a < b: -1, a = b: 0, a > b: +1, deciding on the words i, i - 1, ..., 1.
U64Compare(a, b, i) ==
    IF i = 0 THEN 0
    ELSE IF a[i] < b[i] THEN -1
    ELSE IF a[i] > b[i] THEN 1
    ELSE U64Compare(a, b, i - 1)

\* (v << 8) | t for a byte t, in 64 bits.
U64Shl8Or(v, t) ==
    <<(v[1] % 256) * 256 + t,
      (v[2] % 256) * 256 + v[1] \div 256,
      (v[3] % 256) * 256 + v[2] \div 256,
      (v[4] % 256) * 256 + v[3] \div 256>>

\* EncodeFixed64 / PutFixed64 of a uint64_t.
EncodeFixed64(v) ==
    EncodeFixed(v[1], 2) \o EncodeFixed(v[2], 2)
    \o EncodeFixed(v[3], 2) \o EncodeFixed(v[4], 2)

RECURSIVE DecodeFixed(_)
\* DecodeFixed32 and its like of the bytes b, least significant first.
DecodeFixed(b) ==
    IF b = << >> THEN 0 ELSE b[1] + 256 * DecodeFixed(Tail(b))

\* DecodeFixed32(p) for p pointing at byte pos + 1 of s.
DecodeFixed32(s, pos) == DecodeFixed(SubSeq(s, pos + 1, pos + 4))

\* DecodeFixed64(p) for p pointing at byte pos + 1 of s.
DecodeFixed64(s, pos) ==
    <<DecodeFixed(SubSeq(s, pos + 1, pos + 2)),
      DecodeFixed(SubSeq(s, pos + 3, pos + 4)),
      DecodeFixed(SubSeq(s, pos + 5, pos + 6)),
      DecodeFixed(SubSeq(s, pos + 7, pos + 8))>>

RECURSIVE PutFixed32Array(_, _, _)
\* for (i ...) PutFixed32(&buffer, words[i]), from the i-th word on.
PutFixed32Array(buffer, words, i) ==
    IF i > Len(words) THEN buffer
    ELSE PutFixed32Array(buffer \o EncodeFixed32(words[i]), words, i + 1)

RECURSIVE EncodeVarint32(_)
\* EncodeVarint32 / PutVarint32: 7 bits a byte, least significant group
\* first, the high bit set on every byte but the last.
EncodeVarint32(v) ==
    IF v < 128 THEN <<v>>
    ELSE <<(v % 128) + 128>> \o EncodeVarint32(v \div 128)

\* VarintLength.
VarintLength(v) == Len(EncodeVarint32(v))

RECURSIVE GetVarint32(_, _, _)
\* GetVarint32Ptr(p, limit, &value) for p pointing at byte pos + 1 of s and
\* limit at byte lim + 1: [ok, value, next], next the position after the
\* varint; ok is FALSE (NULL returned) when the varint does not end before
\* limit or is longer than 5 bytes.
GetVarint32(s, pos, lim) ==
    IF pos >= lim \/ pos >= Len(s) THEN [ok |-> FALSE, value |-> 0, next |-> pos]
    ELSE IF s[pos + 1] < 128
         THEN [ok |-> TRUE, value |-> s[pos + 1], next |-> pos + 1]
         ELSE LET r == GetVarint32(s, pos + 1, lim)
              IN [ok |-> r.ok,
                  value |-> (s[pos + 1] - 128) + 128 * r.value,
                  next |-> r.next]

\* GetLengthPrefixedSlice(data) for data pointing at byte pos + 1 of s.
GetLengthPrefixedSlice(s, pos) ==
    LET r == GetVarint32(s, pos, pos + 5)
    IN SubSeq(s, r.next + 1, r.next + r.value)

RECURSIVE BytewiseCompare(_, _)
\* BytewiseComparator()->Compare, Slice::compare: memcmp over the common
\* length, the shorter string first on a tie.
BytewiseCompare(a, b) ==
    IF a = << >> /\ b = << >> THEN 0
    ELSE IF a = << >> THEN -1
    ELSE IF b = << >> THEN 1
    ELSE IF a[1] < b[1] THEN -1
    ELSE IF a[1] > b[1] THEN 1
    ELSE BytewiseCompare(Tail(a), Tail(b))

(***************************************************************************)
(* Part 3: db/dbformat.cc -- internal keys, InternalKeyComparator,         *)
(* LookupKey.                                                              *)
(***************************************************************************)
\* enum ValueType (db/dbformat.h): the values MemTable::Get switches on.
kTypeDeletion == 0
kTypeValue == 1
\* PackSequenceAndType asserts t <= kValueTypeForSeek for every type it is
\* given: kValueTypeForSeek is the greatest ValueType.
kValueTypeForSeek == 1

ValueTypes == {kTypeDeletion, kTypeValue}

\* The tag without the type.
PackSequenceAndType_SeqOnly(seq, t) == U64Shl8Or(seq, 0)

\* PackSequenceAndType: (seq << 8) | t.
PackSequenceAndType(seq, t) == U64Shl8Or(seq, t)

\* AppendInternalKey(result, key), key a ParsedInternalKey
\* [user_key, sequence, type].
AppendInternalKey(result, key) ==
    result \o key.user_key
           \o EncodeFixed64(PackSequenceAndType(U64(key.sequence),
                                                key.type))

\* ExtractUserKey(internal_key): all but the last 8 bytes.
ExtractUserKey(internal_key) == Take(internal_key, Len(internal_key) - 8)

\* The user comparator the InternalKeyComparator is built on.
user_comparator_Compare(a, b) == BytewiseCompare(a, b)

\* Compare with the order of the tags reversed.
InternalKeyComparator_Compare_Ascending(akey, bkey) ==
    LET r == user_comparator_Compare(ExtractUserKey(akey), ExtractUserKey(bkey))
        anum == DecodeFixed64(akey, Len(akey) - 8)
        bnum == DecodeFixed64(bkey, Len(bkey) - 8)
    IN IF r = 0
       THEN (IF U64Compare(anum, bnum, 4) > 0 THEN 1
             ELSE IF U64Compare(anum, bnum, 4) < 0 THEN -1 ELSE r)
       ELSE r

\* InternalKeyComparator::Compare.
InternalKeyComparator_Compare(akey, bkey) ==
    LET r == user_comparator_Compare(ExtractUserKey(akey), ExtractUserKey(bkey))
        anum == DecodeFixed64(akey, Len(akey) - 8)
        bnum == DecodeFixed64(bkey, Len(bkey) - 8)
    IN IF r = 0
       THEN (IF U64Compare(anum, bnum, 4) > 0 THEN -1
             ELSE IF U64Compare(anum, bnum, 4) < 0 THEN 1 ELSE r)
       ELSE r

\* kMaxSequenceNumber, (1 << 56) - 1.
kMaxSequenceNumber == <<65535, 65535, 65535, 255>>

\* FindShortestSeparator tagging the shortened key with sequence number 0.
InternalKeyComparator_FindShortestSeparator_ZeroTag(start, limit, tmp) ==
    LET user_start == ExtractUserKey(start)
        tagged == tmp \o EncodeFixed64(PackSequenceAndType(
                                          U64(0), kValueTypeForSeek))
    IN IF Len(tmp) < Len(user_start)
          /\ user_comparator_Compare(user_start, tmp) < 0
       THEN [start |-> tagged,
             ok |-> /\ InternalKeyComparator_Compare(start, tagged) < 0
                    /\ InternalKeyComparator_Compare(tagged, limit) < 0]
       ELSE [start |-> start, ok |-> TRUE]

\* InternalKeyComparator::FindShortestSeparator(start, limit), tmp being
\* what user_comparator_->FindShortestSeparator made of the user key of
\* start: [start, ok], ok telling whether the two asserts hold.
InternalKeyComparator_FindShortestSeparator(start, limit, tmp) ==
    LET user_start == ExtractUserKey(start)
        tagged == tmp \o EncodeFixed64(PackSequenceAndType(
                                          kMaxSequenceNumber,
                                          kValueTypeForSeek))
    IN IF Len(tmp) < Len(user_start)
          /\ user_comparator_Compare(user_start, tmp) < 0
       THEN [start |-> tagged,
             ok |-> /\ InternalKeyComparator_Compare(start, tagged) < 0
                    /\ InternalKeyComparator_Compare(tagged, limit) < 0]
       ELSE [start |-> start, ok |-> TRUE]

\* InternalKeyComparator::FindShortSuccessor(key), tmp being what
\* user_comparator_->FindShortSuccessor made of the user key: [key, ok].
InternalKeyComparator_FindShortSuccessor(key, tmp) ==
    LET user_key == ExtractUserKey(key)
        tagged == tmp \o EncodeFixed64(PackSequenceAndType(
                                          kMaxSequenceNumber,
                                          kValueTypeForSeek))
    IN IF Len(tmp) < Len(user_key)
          /\ user_comparator_Compare(user_key, tmp) < 0
       THEN [key |-> tagged,
             ok |-> InternalKeyComparator_Compare(key, tagged) < 0]
       ELSE [key |-> key, ok |-> TRUE]

\* The two asserts of PackSequenceAndType.
PackSequenceAndType_Asserts(seq, t) ==
    /\ U64Compare(seq, kMaxSequenceNumber, 4) <= 0
    /\ t <= kValueTypeForSeek

\* LookupKey packing the deletion type into the tag.
LookupKey_DeletionTag(user_key, s) ==
    LET usize == Len(user_key)
        klength == EncodeVarint32(usize + 8)
    IN [rep |-> klength \o user_key
                  \o EncodeFixed64(PackSequenceAndType(U64(s),
                                                      kTypeDeletion)),
        kstart_ |-> Len(klength)]

\* LookupKey::LookupKey(user_key, s): the bytes start_ .. end_, and where
\* kstart_ points.
LookupKey(user_key, s) ==
    LET usize == Len(user_key)
        klength == EncodeVarint32(usize + 8)
    IN [rep |-> klength \o user_key
                  \o EncodeFixed64(PackSequenceAndType(U64(s),
                                                      kValueTypeForSeek)),
        kstart_ |-> Len(klength)]

\* LookupKey::memtable_key(): start_ .. end_.
memtable_key(lkey) == lkey.rep

\* LookupKey::user_key(): kstart_ .. end_ - 8.
LookupKey_user_key(lkey) ==
    SubSeq(lkey.rep, lkey.kstart_ + 1, Len(lkey.rep) - 8)

(***************************************************************************)
(* Part 4: MemTable (db/leveldb_main.cc).  table_ is the SkipList of the   *)
(* encoded entries, here the sequence of its nodes in list order.          *)
(***************************************************************************)
\* MemTable::KeyComparator::operator().
KeyComparator(aptr, bptr) ==
    InternalKeyComparator_Compare(GetLengthPrefixedSlice(aptr, 0),
                                  GetLengthPrefixedSlice(bptr, 0))

\* SkipList::Insert(key): the node goes after the nodes that compare less.
SkipList_Insert(table, key) ==
    LET n == Cardinality({i \in 1 .. Len(table) :
                              KeyComparator(table[i], key) < 0})
    IN Take(table, n) \o <<key>> \o Drop(table, n)

\* SkipList::Iterator::Seek(target): the first node that compares greater
\* than or equal to target; 0 when there is none (the iterator is not Valid).
SkipList_Seek(table, target) ==
    LET ge == {i \in 1 .. Len(table) : KeyComparator(table[i], target) >= 0}
    IN IF ge = {} THEN 0 ELSE CHOOSE i \in ge : \A j \in ge : i <= j

\* MemTable::Add: the entry is varint32(internal_key.size()), the user key,
\* the tag (s << 8) | type, varint32(value.size()), the value.
MemTable_Add(table, s, type, key, value) ==
    LET key_size == Len(key)
        val_size == Len(value)
        internal_key_size == key_size + 8
        buf == EncodeVarint32(internal_key_size)
               \o key
               \o EncodeFixed64(U64Shl8Or(U64(s), type))
               \o EncodeVarint32(val_size)
               \o value
    IN SkipList_Insert(table, buf)

\* What MemTable::Get does with the entry the Seek found; out is
\* [ret, value, s]: the return value, *value and *s.
MemTable_Get_Decode(entry, key, out) ==
    LET k == GetVarint32(entry, 0, 5)
        key_ptr == k.next
        key_length == k.value
        tag == DecodeFixed64(entry, key_ptr + key_length - 8)
    IN CASE tag[1] % 256 = kTypeValue ->
                [out EXCEPT !.ret = TRUE,
                            !.value = GetLengthPrefixedSlice(
                                          entry, key_ptr + key_length)]
         [] tag[1] % 256 = kTypeDeletion ->
                [out EXCEPT !.ret = TRUE, !.s = "NotFound"]
         [] OTHER -> [out EXCEPT !.ret = FALSE]

\* The user key of the entry at key_ptr: Slice(key_ptr, key_length - 8).
MemTable_EntryUserKey(entry) ==
    LET k == GetVarint32(entry, 0, 5)
    IN SubSeq(entry, k.next + 1, k.next + k.value - 8)

\* Get that takes the entry the Seek found whatever its user key.
MemTable_Get_AnyUserKey(table, key, out) ==
    LET iter == SkipList_Seek(table, memtable_key(key))
    IN IF iter # 0
       THEN MemTable_Get_Decode(table[iter], key, out)
       ELSE [out EXCEPT !.ret = FALSE]

\* MemTable::Get(key, value, s), key a LookupKey.
MemTable_Get(table, key, out) ==
    LET iter == SkipList_Seek(table, memtable_key(key))
    IN IF iter # 0
          /\ user_comparator_Compare(MemTable_EntryUserKey(table[iter]),
                                     LookupKey_user_key(key)) = 0
       THEN MemTable_Get_Decode(table[iter], key, out)
       ELSE [out EXCEPT !.ret = FALSE]

(***************************************************************************)
(* Part 5: BlockBuilder (table/block_builder.cc).  A builder is the record *)
(* of its fields; interval is options_->block_restart_interval.            *)
(***************************************************************************)
\* BlockBuilder::BlockBuilder.
BlockBuilder_New ==
    [buffer_ |-> << >>, restarts_ |-> <<0>>, counter_ |-> 0,
     finished_ |-> FALSE, last_key_ |-> << >>]

\* BlockBuilder::Reset.
BlockBuilder_Reset(b) ==
    [buffer_ |-> << >>, restarts_ |-> <<0>>, counter_ |-> 0,
     finished_ |-> FALSE, last_key_ |-> << >>]

\* An estimate that leaves out the restart count field.
BlockBuilder_CurrentSizeEstimate_NoCount(b) ==
    Len(b.buffer_) + Len(b.restarts_) * 4

\* BlockBuilder::CurrentSizeEstimate.
BlockBuilder_CurrentSizeEstimate(b) ==
    Len(b.buffer_) + Len(b.restarts_) * 4 + 4

\* BlockBuilder::Finish; the Slice returned is buffer_.
BlockBuilder_Finish(b) ==
    [b EXCEPT !.buffer_ = PutFixed32Array(b.buffer_, b.restarts_, 1)
                          \o EncodeFixed32(Len(b.restarts_)),
              !.finished_ = TRUE]

\* options_->comparator->Compare.
options_comparator_Compare(a, b) == BytewiseCompare(a, b)

\* The asserts of Add that reject only a key below the last one.
BlockBuilder_AddAsserts_AllowEqual(b, interval, key) ==
    /\ ~b.finished_
    /\ b.counter_ <= interval
    /\ (b.buffer_ = << >> \/ options_comparator_Compare(key, b.last_key_) >= 0)

\* The three asserts at the head of BlockBuilder::Add.
BlockBuilder_AddAsserts(b, interval, key) ==
    /\ ~b.finished_
    /\ b.counter_ <= interval
    /\ (b.buffer_ = << >> \/ options_comparator_Compare(key, b.last_key_) > 0)

\* A prefix count that does not compare the bytes.
SharedPrefix_MinLength(last_key_piece, key, shared, min_length) == min_length

RECURSIVE SharedPrefix(_, _, _, _)
\* The while loop of Add: the number of leading bytes last_key_piece and
\* key have in common, counted from shared up to min_length.
SharedPrefix(last_key_piece, key, shared, min_length) ==
    IF shared < min_length /\ last_key_piece[shared + 1] = key[shared + 1]
    THEN SharedPrefix(last_key_piece, key, shared + 1, min_length)
    ELSE shared

\* Add that shares the prefix of the last key also at a restart.
BlockBuilder_Add_ShareAtRestart(b, interval, key, value) ==
    LET restart == ~(b.counter_ < interval)
        min_length == IF Len(b.last_key_) < Len(key)
                      THEN Len(b.last_key_) ELSE Len(key)
        shared == SharedPrefix(b.last_key_, key, 0, min_length)
        non_shared == Len(key) - shared
    IN [buffer_ |-> b.buffer_
                    \o EncodeVarint32(shared)
                    \o EncodeVarint32(non_shared)
                    \o EncodeVarint32(Len(value))
                    \o Drop(key, shared)
                    \o value,
        restarts_ |-> IF restart THEN Append(b.restarts_, Len(b.buffer_))
                      ELSE b.restarts_,
        counter_ |-> (IF restart THEN 0 ELSE b.counter_) + 1,
        finished_ |-> b.finished_,
        last_key_ |-> Take(b.last_key_, shared) \o Drop(key, shared)]

\* Add that starts a restart one record late.
BlockBuilder_Add_LateRestart(b, interval, key, value) ==
    LET restart == ~(b.counter_ <= interval)
        min_length == IF Len(b.last_key_) < Len(key)
                      THEN Len(b.last_key_) ELSE Len(key)
        shared == IF restart THEN 0
                  ELSE SharedPrefix(b.last_key_, key, 0, min_length)
        non_shared == Len(key) - shared
    IN [buffer_ |-> b.buffer_
                    \o EncodeVarint32(shared)
                    \o EncodeVarint32(non_shared)
                    \o EncodeVarint32(Len(value))
                    \o Drop(key, shared)
                    \o value,
        restarts_ |-> IF restart THEN Append(b.restarts_, Len(b.buffer_))
                      ELSE b.restarts_,
        counter_ |-> (IF restart THEN 0 ELSE b.counter_) + 1,
        finished_ |-> b.finished_,
        last_key_ |-> Take(b.last_key_, shared) \o Drop(key, shared)]

\* BlockBuilder::Add past its asserts.
BlockBuilder_Add(b, interval, key, value) ==
    LET restart == ~(b.counter_ < interval)
        min_length == IF Len(b.last_key_) < Len(key)
                      THEN Len(b.last_key_) ELSE Len(key)
        shared == IF restart THEN 0
                  ELSE SharedPrefix(b.last_key_, key, 0, min_length)
        non_shared == Len(key) - shared
    IN [buffer_ |-> b.buffer_
                    \o EncodeVarint32(shared)
                    \o EncodeVarint32(non_shared)
                    \o EncodeVarint32(Len(value))
                    \o Drop(key, shared)
                    \o value,
        restarts_ |-> IF restart THEN Append(b.restarts_, Len(b.buffer_))
                      ELSE b.restarts_,
        counter_ |-> (IF restart THEN 0 ELSE b.counter_) + 1,
        finished_ |-> b.finished_,
        last_key_ |-> Take(b.last_key_, shared) \o Drop(key, shared)]

(***************************************************************************)
(* Part 6: FilterBlockBuilder and FilterBlockReader (table/filter_block).  *)
(* The injected FilterPolicy is a one-byte bit set of key hashes; policy   *)
(* is what its KeyMayMatch answers on a filter too short to hold the byte. *)
(***************************************************************************)
kFilterBaseLg == 11
kFilterBase == 2 ^ kFilterBaseLg

RECURSIVE SumBytes(_)
SumBytes(s) == IF s = << >> THEN 0 ELSE s[1] + SumBytes(Tail(s))

\* The bit of the filter byte a key hashes to.
PolicyBit(key) == 2 ^ (SumBytes(key) % 2)

\* policy_->CreateFilter(keys, n, dst): appends the filter of the n keys.
Policy_CreateFilter(keys, dst) ==
    LET bits == {PolicyBit(keys[i]) : i \in 1 .. Len(keys)}
    IN dst \o <<(IF 1 \in bits THEN 1 ELSE 0) + (IF 2 \in bits THEN 2 ELSE 0)>>

\* policy_->KeyMayMatch(key, filter).
Policy_KeyMayMatch(policy, key, filter) ==
    IF Len(filter) < 1 THEN policy
    ELSE (filter[1] \div PolicyBit(key)) % 2 = 1

\* FilterBlockBuilder::FilterBlockBuilder.
FilterBlockBuilder_New ==
    [keys_ |-> << >>, start_ |-> << >>, result_ |-> << >>,
     filter_offsets_ |-> << >>]

\* GenerateFilter that leaves the keys out of the filter.
FilterBlockBuilder_GenerateFilter_NoKeys(f) ==
    [f EXCEPT !.filter_offsets_ = Append(@, Len(f.result_)),
              !.result_ = IF f.start_ = << >> THEN @ ELSE @ \o <<0>>,
              !.keys_ = << >>,
              !.start_ = << >>]

\* FilterBlockBuilder::GenerateFilter.
FilterBlockBuilder_GenerateFilter(f) ==
    LET num_keys == Len(f.start_)
        start == Append(f.start_, Len(f.keys_))
        tmp_keys_ == [i \in 1 .. num_keys |->
                         SubSeq(f.keys_, start[i] + 1, start[i + 1])]
    IN IF num_keys = 0
       THEN [f EXCEPT !.filter_offsets_ = Append(@, Len(f.result_))]
       ELSE [f EXCEPT !.filter_offsets_ = Append(@, Len(f.result_)),
                      !.result_ = Policy_CreateFilter(tmp_keys_, @),
                      !.keys_ = << >>,
                      !.start_ = << >>]

\* The loop of StartBlock as an "if": at most one filter a call.
FilterBlockBuilder_StartBlockLoop_Once(f, filter_index) ==
    IF filter_index > Len(f.filter_offsets_)
    THEN FilterBlockBuilder_GenerateFilter(f)
    ELSE f

RECURSIVE FilterBlockBuilder_StartBlockLoop(_, _)
\* The while loop of StartBlock.
FilterBlockBuilder_StartBlockLoop(f, filter_index) ==
    IF filter_index > Len(f.filter_offsets_)
    THEN FilterBlockBuilder_StartBlockLoop(
             FilterBlockBuilder_GenerateFilter(f), filter_index)
    ELSE f

\* The assert of FilterBlockBuilder::StartBlock.
FilterBlockBuilder_StartBlockAssert(f, block_offset) ==
    block_offset \div kFilterBase >= Len(f.filter_offsets_)

\* FilterBlockBuilder::StartBlock past its assert.
FilterBlockBuilder_StartBlock(f, block_offset) ==
    FilterBlockBuilder_StartBlockLoop(f, block_offset \div kFilterBase)

\* FilterBlockBuilder::AddKey.
FilterBlockBuilder_AddKey(f, key) ==
    [f EXCEPT !.start_ = Append(@, Len(f.keys_)),
              !.keys_ = @ \o key]

\* Finish that takes array_offset after the offset table is appended.
FilterBlockBuilder_Finish_TableEnd(f) ==
    LET g == IF f.start_ # << >> THEN FilterBlockBuilder_GenerateFilter(f)
             ELSE f
        table == PutFixed32Array(g.result_, g.filter_offsets_, 1)
    IN [g EXCEPT !.result_ =
            table \o EncodeFixed32(Len(table)) \o <<kFilterBaseLg>>]

\* FilterBlockBuilder::Finish; the Slice returned is result_.
FilterBlockBuilder_Finish(f) ==
    LET g == IF f.start_ # << >> THEN FilterBlockBuilder_GenerateFilter(f)
             ELSE f
        array_offset == Len(g.result_)
    IN [g EXCEPT !.result_ =
            PutFixed32Array(g.result_, g.filter_offsets_, 1)
            \o EncodeFixed32(array_offset)
            \o <<kFilterBaseLg>>]

\* The reader that was given no contents it could use.
FilterBlockReader_Null ==
    [data_ |-> << >>, offset_ |-> 0, num_ |-> 0, base_lg_ |-> 0]

\* FilterBlockReader::FilterBlockReader(policy, contents); offset_ is kept
\* as the distance offset_ - data_.
FilterBlockReader_New(contents) ==
    LET n == Len(contents)
        last_word == DecodeFixed32(contents, n - 5)
    IN IF n < 5 THEN FilterBlockReader_Null
       ELSE IF last_word > n - 5
            THEN [FilterBlockReader_Null EXCEPT !.base_lg_ = contents[n]]
            ELSE [data_ |-> contents,
                  offset_ |-> last_word,
                  num_ |-> (n - 5 - last_word) \div 4,
                  base_lg_ |-> contents[n]]

\* block_offset >> base_lg_, for block offsets below 2^31: the values index
\* can take.  base_lg_ is whatever byte the block ended with; a shift of a
\* uint64_t by 64 or more is undefined, and the builds give 0 or shift by
\* the count modulo 64.
FilterBlockReader_Index(block_offset, base_lg_) ==
    LET shr(n) == IF n > 30 THEN 0 ELSE block_offset \div (2 ^ n)
    IN IF base_lg_ < 64 THEN {shr(base_lg_)}
       ELSE {0, shr(base_lg_ % 64)}

\* KeyMayMatch returning false where a range cannot be used.
FilterBlockReader_KeyMayMatch_FailClosed(r, policy, index, key) ==
    LET start == DecodeFixed32(r.data_, r.offset_ + index * 4)
        limit == DecodeFixed32(r.data_, r.offset_ + index * 4 + 4)
    IN IF index < r.num_
       THEN IF start <= limit /\ limit <= r.offset_
            THEN Policy_KeyMayMatch(policy, key,
                                    SubSeq(r.data_, start + 1, limit))
            ELSE FALSE
       ELSE FALSE

\* FilterBlockReader::KeyMayMatch past the computation of index.
FilterBlockReader_KeyMayMatch(r, policy, index, key) ==
    LET start == DecodeFixed32(r.data_, r.offset_ + index * 4)
        limit == DecodeFixed32(r.data_, r.offset_ + index * 4 + 4)
    IN IF index < r.num_
       THEN IF start <= limit /\ limit <= r.offset_
            THEN Policy_KeyMayMatch(policy, key,
                                    SubSeq(r.data_, start + 1, limit))
            ELSE IF start = limit THEN FALSE
            ELSE TRUE
       ELSE TRUE

(***************************************************************************)
(* Part 7: table/format -- BlockHandle, Footer, ReadBlock.                 *)
(***************************************************************************)
\* v >> 7, in 64 bits.
U64Shr7(v) ==
    <<v[1] \div 128 + (v[2] % 128) * 512,
      v[2] \div 128 + (v[3] % 128) * 512,
      v[3] \div 128 + (v[4] % 128) * 512,
      v[4] \div 128>>

\* (v << 7) | d for d below 128, in 64 bits: the bits shifted past bit 63
\* are lost.
U64Shl7Or(v, d) ==
    <<(v[1] % 512) * 128 + d,
      (v[2] % 512) * 128 + v[1] \div 512,
      (v[3] % 512) * 128 + v[2] \div 512,
      (v[4] % 512) * 128 + v[3] \div 512>>

RECURSIVE EncodeVarint64(_)
\* EncodeVarint64 / PutVarint64: while (v >= 128) emit (v & 127) | 128 and
\* shift v right by 7; then emit v.
EncodeVarint64(v) ==
    IF v[2] = 0 /\ v[3] = 0 /\ v[4] = 0 /\ v[1] < 128 THEN <<v[1]>>
    ELSE <<(v[1] % 128) + 128>> \o EncodeVarint64(U64Shr7(v))

RECURSIVE GetVarint64Ptr(_, _, _)
\* GetVarint64Ptr(p, limit, &value) for p pointing at byte pos + 1 of s, limit
\* at the end of s, and k bytes of the varint already read (shift = 7 * k):
\* [ok, value, next], value being the bits from shift on.  ok is FALSE (NULL
\* returned) when the bytes run out or shift passes 63.
GetVarint64Ptr(s, pos, k) ==
    IF k > 9 \/ pos >= Len(s)
    THEN [ok |-> FALSE, value |-> U64(0), next |-> pos]
    ELSE IF s[pos + 1] >= 128
         THEN LET r == GetVarint64Ptr(s, pos + 1, k + 1)
              IN [r EXCEPT !.value = U64Shl7Or(@, s[pos + 1] % 128)]
         ELSE [ok |-> TRUE, value |-> U64(s[pos + 1]), next |-> pos + 1]

\* GetVarint64(input, &value): [ok, value, input]; on failure neither the
\* value nor the input is touched.
GetVarint64(input, value) ==
    LET r == GetVarint64Ptr(input, 0, 0)
    IN IF r.ok
       THEN [ok |-> TRUE, value |-> r.value, input |-> Drop(input, r.next)]
       ELSE [ok |-> FALSE, value |-> value, input |-> input]

\* PutFixed32 of a uint32_t kept as its two 16-bit words.
EncodeFixed32Words(v) == EncodeFixed(v[1], 2) \o EncodeFixed(v[2], 2)

\* DecodeFixed32(p) as two 16-bit words, p pointing at byte pos + 1 of s.
DecodeFixed32Words(s, pos) ==
    <<DecodeFixed(SubSeq(s, pos + 1, pos + 2)),
      DecodeFixed(SubSeq(s, pos + 3, pos + 4))>>

\* ~static_cast<uint64_t>(0), the value of a field that was not set.
kUnset == <<65535, 65535, 65535, 65535>>

\* BlockHandle::kMaxEncodedLength: two varint64 of at most 10 bytes.
kMaxEncodedLength == 20

\* Footer::kEncodedLength.
kEncodedLength == 2 * kMaxEncodedLength + 8

\* kTableMagicNumber, 0xdb4775248b80fb57.
kTableMagicNumber == <<64343, 35712, 29988, 56135>>

\* BlockHandle::BlockHandle.
BlockHandle_New == [offset_ |-> kUnset, size_ |-> kUnset]

\* The asserts of BlockHandle::EncodeTo.
BlockHandle_EncodeAsserts(h) == h.offset_ # kUnset /\ h.size_ # kUnset

\* BlockHandle::EncodeTo past its asserts.
BlockHandle_EncodeTo(h, dst) ==
    dst \o EncodeVarint64(h.offset_) \o EncodeVarint64(h.size_)

\* BlockHandle::DecodeFrom: [status, h, input].
BlockHandle_DecodeFrom(h, input) ==
    LET a == GetVarint64(input, h.offset_)
        b == GetVarint64(a.input, h.size_)
    IN IF ~a.ok
       THEN [status |-> "Corruption", h |-> h, input |-> input]
       ELSE [status |-> IF b.ok THEN "OK" ELSE "Corruption",
             h |-> [offset_ |-> a.value, size_ |-> b.value],
             input |-> b.input]

\* std::string::resize(n): cut to n bytes or filled up with zero bytes.
Resize(str, n) ==
    IF Len(str) >= n THEN Take(str, n)
    ELSE str \o [i \in 1 .. n - Len(str) |-> 0]

\* Footer::Footer: two handles not yet set.
Footer_New ==
    [metaindex_handle_ |-> BlockHandle_New, index_handle_ |-> BlockHandle_New]

\* EncodeTo that leaves the padding out.
Footer_EncodeTo_NoPadding(f, dst) ==
    LET handles == BlockHandle_EncodeTo(
                       f.index_handle_,
                       BlockHandle_EncodeTo(f.metaindex_handle_, dst))
        out == handles
               \o EncodeFixed32Words(SubSeq(kTableMagicNumber, 1, 2))
               \o EncodeFixed32Words(SubSeq(kTableMagicNumber, 3, 4))
    IN [dst |-> out, ok |-> Len(out) = Len(dst) + kEncodedLength]

\* Footer::EncodeTo past the asserts of the handles: [dst, ok], ok telling
\* whether the closing assert holds.
Footer_EncodeTo(f, dst) ==
    LET handles == BlockHandle_EncodeTo(
                       f.index_handle_,
                       BlockHandle_EncodeTo(f.metaindex_handle_, dst))
        padded == Resize(handles, 2 * kMaxEncodedLength)
        out == padded
               \o EncodeFixed32Words(SubSeq(kTableMagicNumber, 1, 2))
               \o EncodeFixed32Words(SubSeq(kTableMagicNumber, 3, 4))
    IN [dst |-> out, ok |-> Len(out) = Len(dst) + kEncodedLength]

\* DecodeFrom that parses the handles whatever the magic.
Footer_DecodeFrom_NoMagic(f, input) ==
    LET m == BlockHandle_DecodeFrom(f.metaindex_handle_, input)
        i == BlockHandle_DecodeFrom(f.index_handle_, m.input)
    IN IF m.status # "OK"
       THEN [status |-> m.status,
             f |-> [f EXCEPT !.metaindex_handle_ = m.h],
             input |-> m.input]
       ELSE IF i.status # "OK"
       THEN [status |-> i.status,
             f |-> [metaindex_handle_ |-> m.h, index_handle_ |-> i.h],
             input |-> i.input]
       ELSE [status |-> "OK",
             f |-> [metaindex_handle_ |-> m.h, index_handle_ |-> i.h],
             input |-> Drop(input, kEncodedLength)]

\* DecodeFrom that does not look at the status of the index handle.
Footer_DecodeFrom_IndexUnchecked(f, input) ==
    LET magic == DecodeFixed32Words(input, kEncodedLength - 8)
                 \o DecodeFixed32Words(input, kEncodedLength - 4)
        m == BlockHandle_DecodeFrom(f.metaindex_handle_, input)
        i == BlockHandle_DecodeFrom(f.index_handle_, m.input)
    IN IF magic # kTableMagicNumber
       THEN [status |-> "Corruption", f |-> f, input |-> input]
       ELSE IF m.status # "OK"
       THEN [status |-> m.status,
             f |-> [f EXCEPT !.metaindex_handle_ = m.h],
             input |-> m.input]
       ELSE [status |-> "OK",
             f |-> [metaindex_handle_ |-> m.h, index_handle_ |-> i.h],
             input |-> Drop(input, kEncodedLength)]

\* Footer::DecodeFrom(input), input of at least kEncodedLength bytes:
\* [status, f, input].
Footer_DecodeFrom(f, input) ==
    LET magic == DecodeFixed32Words(input, kEncodedLength - 8)
                 \o DecodeFixed32Words(input, kEncodedLength - 4)
        m == BlockHandle_DecodeFrom(f.metaindex_handle_, input)
        i == BlockHandle_DecodeFrom(f.index_handle_, m.input)
    IN IF magic # kTableMagicNumber
       THEN [status |-> "Corruption", f |-> f, input |-> input]
       ELSE IF m.status # "OK"
       THEN [status |-> m.status,
             f |-> [f EXCEPT !.metaindex_handle_ = m.h],
             input |-> m.input]
       ELSE IF i.status # "OK"
       THEN [status |-> i.status,
             f |-> [metaindex_handle_ |-> m.h, index_handle_ |-> i.h],
             input |-> i.input]
       ELSE [status |-> "OK",
             f |-> [metaindex_handle_ |-> m.h, index_handle_ |-> i.h],
             input |-> Drop(input, kEncodedLength)]

\* kBlockTrailerSize: the type byte and the four bytes of the crc.
kBlockTrailerSize == 5

\* enum CompressionType.
kNoCompression == 0
kSnappyCompression == 1

\* Status values: the code and the message.
OK == [code |-> "OK", msg |-> ""]

Corruption(msg) == [code |-> "Corruption", msg |-> msg]

IOError(msg) == [code |-> "IOError", msg |-> msg]

\* PosixRandomAccessFile::Read(offset, n, result, scratch) on a file of the
\* bytes file, pread failing or not: [s, contents, in_scratch], in_scratch
\* telling whether the Slice points at scratch.  pread gives the bytes the
\* file has from offset on, at most n.
PosixRandomAccessFile_Read(file, offset, n, fails) ==
    IF fails
    THEN [s |-> IOError("pread"), contents |-> << >>, in_scratch |-> TRUE]
    ELSE [s |-> OK,
          contents |-> SubSeq(file, offset + 1,
                              IF offset + n < Len(file) THEN offset + n
                              ELSE Len(file)),
          in_scratch |-> TRUE]

\* PosixMmapReadableFile::Read on the mapped bytes file.
PosixMmapReadableFile_Read(file, offset, n) ==
    IF offset + n > Len(file)
    THEN [s |-> IOError("EINVAL"), contents |-> << >>, in_scratch |-> FALSE]
    ELSE [s |-> OK, contents |-> SubSeq(file, offset + 1, offset + n),
          in_scratch |-> FALSE]

\* a - b and a + b of uint32_t kept as two 16-bit words.
U32Sub(a, b) ==
    <<(a[1] - b[1] + 65536) % 65536,
      (a[2] - b[2] - (IF a[1] < b[1] THEN 1 ELSE 0) + 65536) % 65536>>

U32Add(a, b) ==
    <<(a[1] + b[1]) % 65536,
      (a[2] + b[2] + (a[1] + b[1]) \div 65536) % 65536>>

\* crc32c::kMaskDelta, 0xa282ead8.
kMaskDelta == <<60120, 41602>>

\* crc32c::Mask: ((crc >> 15) | (crc << 17)) + kMaskDelta.
crc32c_Mask(crc) ==
    U32Add(<<((crc[2] * 2) % 65536) + crc[1] \div 32768,
             ((crc[1] * 2) % 65536) + crc[2] \div 32768>>, kMaskDelta)

\* crc32c::Unmask: rot = masked_crc - kMaskDelta; (rot >> 17) | (rot << 15).
crc32c_Unmask(masked_crc) ==
    LET rot == U32Sub(masked_crc, kMaskDelta)
    IN <<rot[2] \div 2 + (rot[1] % 2) * 32768,
         rot[1] \div 2 + (rot[2] % 2) * 32768>>

RECURSIVE WeightedSum(_, _)
WeightedSum(s, i) ==
    IF i > Len(s) THEN 0 ELSE (i * 31 + 7) * s[i] + WeightedSum(s, i + 1)

\* crc32c::Value(data, n): a checksum of the bytes.  The polynomial is not
\* modelled; the stand-in tells apart the blocks of this model.
crc32c_Value(data) ==
    <<WeightedSum(data, 1) % 65536, (Len(data) * 257 + SumBytes(data)) % 65536>>

\* port::Snappy_GetUncompressedLength(data, n, &ulength): the stream opens
\* with the varint32 of the uncompressed length; [ok, value, next].
Snappy_GetUncompressedLength(data, n) == GetVarint32(data, 0, n)

\* port::Snappy_Uncompress(data, n, ubuf): [ok, ubuf].  Of the stream's
\* elements only the literal run is modelled: the bytes after the length,
\* which must be as many as the length says.
Snappy_Uncompress(data, n) ==
    LET l == Snappy_GetUncompressedLength(data, n)
    IN IF l.ok /\ n - l.next = l.value
       THEN [ok |-> TRUE, ubuf |-> SubSeq(data, l.next + 1, n)]
       ELSE [ok |-> FALSE, ubuf |-> << >>]

\* BlockContents as ReadBlock sets it on entry.
BlockContents_New ==
    [data |-> << >>, cachable |-> FALSE, heap_allocated |-> FALSE]

\* A checksum test that passes whatever is stored.
ReadBlock_ChecksumOk_Unchecked(data, n) == TRUE

\* ReadBlock, the test "actual == crc" under options.verify_checksums.
ReadBlock_ChecksumOk(data, n) ==
    LET crc == crc32c_Unmask(DecodeFixed32Words(data, n + 1))
        actual == crc32c_Value(Take(data, n + 1))
    IN actual = crc

\* The kNoCompression case marking every block cachable.
ReadBlock_NoCompression_Cachable(data, n, in_scratch) ==
    [data |-> Take(data, n), cachable |-> TRUE, heap_allocated |-> TRUE]

\* ReadBlock, case kNoCompression: data != buf is ~in_scratch.
ReadBlock_NoCompression(data, n, in_scratch) ==
    IF ~in_scratch
    THEN [data |-> Take(data, n), cachable |-> FALSE,
          heap_allocated |-> FALSE]
    ELSE [data |-> Take(data, n), cachable |-> TRUE,
          heap_allocated |-> TRUE]

\* ReadBlock looking at the type before the checksum.
ReadBlock_TypeFirst(read, verify_checksums, n) ==
    LET data == read.contents
        failed(s) == [s |-> s, result |-> BlockContents_New]
        u == Snappy_Uncompress(data, n)
    IN IF read.s.code # "OK" THEN failed(read.s)
       ELSE IF Len(read.contents) # n + kBlockTrailerSize
       THEN failed(Corruption("truncated block read"))
       ELSE IF data[n + 1] \notin {kNoCompression, kSnappyCompression}
       THEN failed(Corruption("bad block type"))
       ELSE IF verify_checksums /\ ~ReadBlock_ChecksumOk(data, n)
       THEN failed(Corruption("block checksum mismatch"))
       ELSE IF data[n + 1] = kNoCompression
       THEN [s |-> OK,
             result |-> ReadBlock_NoCompression(data, n, read.in_scratch)]
       ELSE IF ~Snappy_GetUncompressedLength(data, n).ok \/ ~u.ok
       THEN failed(Corruption("corrupted compressed block contents"))
       ELSE [s |-> OK,
             result |-> [data |-> u.ubuf, cachable |-> TRUE,
                         heap_allocated |-> TRUE]]

\* ReadBlock(file, options, handle, result) after file->Read returned read,
\* n being handle.size(): [s, result].
ReadBlock(read, verify_checksums, n) ==
    LET data == read.contents
        failed(s) == [s |-> s, result |-> BlockContents_New]
        u == Snappy_Uncompress(data, n)
    IN IF read.s.code # "OK" THEN failed(read.s)
       ELSE IF Len(read.contents) # n + kBlockTrailerSize
       THEN failed(Corruption("truncated block read"))
       ELSE IF verify_checksums /\ ~ReadBlock_ChecksumOk(data, n)
       THEN failed(Corruption("block checksum mismatch"))
       ELSE IF data[n + 1] = kNoCompression
       THEN [s |-> OK,
             result |-> ReadBlock_NoCompression(data, n, read.in_scratch)]
       ELSE IF data[n + 1] = kSnappyCompression
       THEN IF ~Snappy_GetUncompressedLength(data, n).ok \/ ~u.ok
            THEN failed(Corruption("corrupted compressed block contents"))
            ELSE [s |-> OK,
                  result |-> [data |-> u.ubuf, cachable |-> TRUE,
                              heap_allocated |-> TRUE]]
       ELSE failed(Corruption("bad block type"))

(***************************************************************************)
(* ShardedLRUCache and its callers.                                        *)
(***************************************************************************)
VARIABLES
    heap,       \* address -> LRUHandle
    shard_,     \* ShardedLRUCache::shard_[kNumShards]
    deleted,    \* address -> number of times the entry's deleter has run
    ok,         \* FALSE once an assert has failed (the process has aborted)
    nextAddr,   \* the address the next malloc returns
    held,       \* address -> number of handles callers hold and still owe a Release
    last,       \* the call that returned last: [op, key, ret]
    useOrder    \* the entries of the index, least recently used first, as the
                \* callers saw them used (returned by Insert or by Lookup)

cacheVars == <<heap, shard_, deleted, ok, nextAddr, held, last, useOrder>>

\* Threads calling into the cache concurrently (SpecMT, SpecId).
VARIABLES
    pc,         \* thread -> where it is in its call
    call,       \* thread -> the call in progress: [op, key, hash, charge, handle]
    e_,         \* thread -> its local LRUHandle* e of Lookup, Insert and Erase
    arena,      \* thread -> number of LRUHandles malloc has given it
    mutex_,     \* shard -> the thread holding LRUCache::mutex_, or NoThread
    seq,        \* the cache had the calls run one at a time, each as a whole
                \* when it got the lock: [heap, shard_, deleted, ok]
    seqRet      \* thread -> what its call returned in seq

mtVars == <<pc, call, e_, arena, mutex_, seq, seqRet>>

\* ShardedLRUCache::NewId and its callers.
VARIABLES
    last_id_,   \* ShardedLRUCache::last_id_
    id_mutex_,  \* the thread holding id_mutex_, or NoThread
    idpc,       \* thread -> where it is in NewId
    idreg,      \* thread -> the value it computed for ++last_id_
    idret,      \* thread -> the value its last NewId returned (0: none yet)
    ids         \* the values NewId produced, in the order of the increments

idVars == <<last_id_, id_mutex_, idpc, idreg, idret, ids>>

\* The table format and the memtable: one variable a component.
VARIABLES
    cmp,        \* the last InternalKeyComparator::Compare calls: the keys
                \* a, b, c and the results ab, ba, bc, ac
    mem,        \* the MemTable: table_, and what its callers added and got
    bb,         \* a BlockBuilder, its options and what its caller added
    fb          \* a FilterBlockBuilder, the block it produced and its reader

tblVars == <<cmp, mem, bb, fb>>

NoParsedKey == [user_key |-> << >>, sequence |-> 0, type |-> 0]

CmpInit ==
    cmp = [called |-> FALSE, a |-> NoParsedKey, b |-> NoParsedKey,
           c |-> NoParsedKey, ab |-> 0, ba |-> 0, bc |-> 0, ac |-> 0]

\* What the caller of Get passes in: an empty string and an OK status.
NoOut == [ret |-> FALSE, value |-> << >>, s |-> "OK"]

\* MemTable::MemTable: an empty table_.
MemInit ==
    mem = [table_ |-> << >>, adds |-> {},
           last |-> [op |-> "none", key |-> << >>, sequence |-> 0,
                     lkey |-> << >>, out |-> NoOut]]

\* BlockBuilder::BlockBuilder(options).
BBInit(interval) ==
    bb = [interval |-> interval, b |-> BlockBuilder_New, added |-> << >>,
          aborted |-> FALSE, data_size |-> 0]

\* FilterBlockBuilder::FilterBlockBuilder(policy).
FBInit(policy) ==
    fb = [policy |-> policy, f |-> FilterBlockBuilder_New,
          bucket |-> -1, added |-> {},
          nkeys |-> 0, aborted |-> FALSE, finished |-> FALSE,
          corrupted |-> FALSE,
          contents |-> << >>, reader |-> FilterBlockReader_Null,
          last |-> [op |-> "none", block_offset |-> 0, index |-> 0,
                    key |-> << >>, ret |-> FALSE]]

TblInit(interval, policy) ==
    CmpInit /\ MemInit /\ BBInit(interval) /\ FBInit(policy)

\* table/format: one variable a component.
VARIABLES
    ft,         \* a Footer, the bytes it was encoded to and what was decoded
    rb,         \* a file holding a block, and the last ReadBlock on it
    sep         \* the last FindShortestSeparator / FindShortSuccessor call

fmtVars == <<ft, rb, sep>>

\* Footer::Footer, and nothing encoded yet.
FtInit ==
    ft = [stage |-> "new", f |-> Footer_New, dst |-> << >>,
          before |-> << >>, ok |-> TRUE,
          hdamaged |-> 0, lastpos |-> 0, mdamaged |-> FALSE,
          given |-> << >>, target |-> Footer_New,
          status |-> "OK", g |-> Footer_New, input |-> << >>]

\* A file not yet written, and no ReadBlock yet.
RbInit ==
    rb = [stage |-> "new", file |-> << >>, offset |-> 0, n |-> 0,
          flips |-> 0, lastpos |-> 0, truncated |-> FALSE,
          verify_checksums |-> FALSE,
          read |-> [s |-> OK, contents |-> << >>, in_scratch |-> FALSE],
          s |-> OK, result |-> BlockContents_New]

\* No FindShortestSeparator or FindShortSuccessor call yet.
SepInit ==
    sep = [op |-> "none", start |-> << >>, limit |-> << >>, tmp |-> << >>,
           result |-> << >>, ok |-> TRUE]

\* util/env_posix: one variable a component.
VARIABLES
    env,        \* the queue of PosixEnv::Schedule, its callers and BGThread
    lim         \* an MmapLimiter and the threads that use it

envVars == <<env, lim>>

Threads == {"t1", "t2"}

NoThread == "none"

\* PosixEnv::PosixEnv: started_bgthread_(false), an empty queue_, mu_ free;
\* no Schedule call yet and no background thread.
EnvInit ==
    env = [mu_ |-> NoThread, started_bgthread_ |-> FALSE, queue_ |-> << >>,
           pc |-> [t \in Threads |-> "idle"],
           function |-> [t \in Threads |-> 0],
           calls |-> 0, locked |-> << >>,
           bgpc |-> "none", created |-> 0, running |-> 0,
           wakeups |-> 0, ran |-> << >>]

\* MmapLimiter::MmapLimiter with SetAllowed(limit): 1000 where pointers
\* have 8 bytes, 0 elsewhere.
LimInit(limit) ==
    lim = [allowed_ |-> limit, mu_ |-> NoThread, limit |-> limit,
           pc |-> [t \in Threads |-> "idle"],
           ret |-> [t \in Threads |-> "none"],
           slots |-> [t \in Threads |-> 0]]

FmtInit == FtInit /\ RbInit /\ SepInit /\ EnvInit /\ LimInit(MaxSlots)

vars == <<cacheVars, mtVars, idVars, tblVars, fmtVars, envVars>>

ShardIds == 0 .. (kNumShards - 1)

\* ShardedLRUCache::ShardedLRUCache(capacity).
PerShard(capacity) == (capacity + (kNumShards - 1)) \div kNumShards

CacheInit ==
    /\ heap = [h \in Handles |-> NoHandle]
    /\ shard_ = [s \in ShardIds |-> LRUCache_New(PerShard(CacheCapacity))]
    /\ deleted = [h \in Handles |-> 0]
    /\ ok = TRUE
    /\ nextAddr = 1
    /\ held = [h \in Handles |-> 0]
    /\ last = [op |-> "none", key |-> "", ret |-> NULL]
    /\ useOrder = << >>

NoCall == [op |-> "none", key |-> "", hash |-> 0, charge |-> 0, handle |-> NULL]

MTInit ==
    /\ pc = [t \in Threads |-> "idle"]
    /\ call = [t \in Threads |-> NoCall]
    /\ e_ = [t \in Threads |-> NULL]
    /\ arena = [t \in Threads |-> 0]
    /\ mutex_ = [s \in ShardIds |-> NoThread]
    /\ seq = [heap |-> heap, shard_ |-> shard_, deleted |-> deleted, ok |-> ok]
    /\ seqRet = [t \in Threads |-> NULL]

\* ShardedLRUCache::ShardedLRUCache: last_id_(0).
IdInit ==
    /\ last_id_ = 0
    /\ id_mutex_ = NoThread
    /\ idpc = [t \in Threads |-> "idle"]
    /\ idreg = [t \in Threads |-> 0]
    /\ idret = [t \in Threads |-> 0]
    /\ ids = << >>

\* The state a method of shard s works on, and the write-back of its result.
StateOf(s) == [heap |-> heap, c |-> shard_[s], deleted |-> deleted, ok |-> ok]

Commit(s, st) ==
    /\ heap' = st.heap
    /\ shard_' = [shard_ EXCEPT ![s] = st.c]
    /\ deleted' = st.deleted
    /\ ok' = st.ok

\* The entries reachable through the index of shard s, through its LRU list.
IndexSet(s) == SeqSet(Flatten(shard_[s].table_.list_))

ListSet(s) == SeqSet(shard_[s].lru_)

InIndex(h) == \E s \in ShardIds : h \in IndexSet(s)

\* The callers' view of recency after a call on shard s that used entry
\* `used` (NULL: none): `used` becomes the most recent, entries that left
\* the index of s are forgotten.
Used(s, used) ==
    LET before == IndexSet(s)
        after == SeqSet(Flatten(shard_'[s].table_.list_))
    IN useOrder' =
           SelectSeq(SeqRemove(useOrder, used) \o
                         (IF used = NULL THEN << >> ELSE <<used>>),
                     LAMBDA h : h \in after \/ (h \notin before /\ h # used))

RECURSIVE SumTo(_, _)
\* f[1] + ... + f[n]
SumTo(f, n) == IF n = 0 THEN 0 ELSE f[n] + SumTo(f, n - 1)

\* Handles the callers hold.
TotalHeld == SumTo(held, MaxEntries)

\* ShardedLRUCache::Insert, the caller keeping the returned handle.
CacheInsert(key, value, charge) ==
    /\ ok
    /\ nextAddr <= MaxEntries
    /\ TotalHeld < MaxHeld
    /\ LET hash == HashSlice(key)
           s == Shard(hash)
           r == Insert(StateOf(s), key, hash, value, charge, nextAddr)
       IN /\ Commit(s, r.st)
          /\ held' = [held EXCEPT ![r.ret] = @ + 1]
          /\ last' = [op |-> "Insert", key |-> key, ret |-> r.ret]
          /\ Used(s, r.ret)
    /\ nextAddr' = nextAddr + 1
    /\ UNCHANGED <<mtVars, idVars, tblVars, fmtVars, envVars>>

\* ShardedLRUCache::Lookup, the caller keeping the handle of a hit.
CacheLookup(key) ==
    /\ ok
    /\ TotalHeld < MaxHeld
    /\ LET hash == HashSlice(key)
           s == Shard(hash)
           r == Lookup(StateOf(s), key, hash)
       IN /\ Commit(s, r.st)
          /\ held' = IF r.ret # NULL THEN [held EXCEPT ![r.ret] = @ + 1]
                     ELSE held
          /\ last' = [op |-> "Lookup", key |-> key, ret |-> r.ret]
          /\ Used(s, r.ret)
    /\ UNCHANGED <<nextAddr, mtVars, idVars, tblVars, fmtVars, envVars>>

\* ShardedLRUCache::Release of a handle the caller holds; the shard is the
\* one of the hash stored in the handle.
CacheRelease(handle) ==
    /\ ok
    /\ held[handle] > 0
    /\ LET s == Shard(heap[handle].hash)
       IN Commit(s, Release(StateOf(s), handle)) /\ Used(s, NULL)
    /\ held' = [held EXCEPT ![handle] = @ - 1]
    /\ last' = [op |-> "Release", key |-> heap[handle].key, ret |-> handle]
    /\ UNCHANGED <<nextAddr, mtVars, idVars, tblVars, fmtVars, envVars>>

\* ShardedLRUCache::Erase.
CacheErase(key) ==
    /\ ok
    /\ LET hash == HashSlice(key)
           s == Shard(hash)
       IN Commit(s, Erase(StateOf(s), key, hash)) /\ Used(s, NULL)
    /\ last' = [op |-> "Erase", key |-> key, ret |-> NULL]
    /\ UNCHANGED <<nextAddr, held, mtVars, idVars, tblVars, fmtVars, envVars>>

\* ShardedLRUCache::Value.
Value(handle) == heap[handle].value

Init == CacheInit /\ MTInit /\ IdInit /\ TblInit(1, FALSE) /\ FmtInit

Next ==
    \/ \E key \in Keys, charge \in Charges :
           CacheInsert(key, nextAddr, charge)
    \/ \E key \in Keys : CacheLookup(key)
    \/ \E handle \in Handles : CacheRelease(handle)
    \/ \E key \in Keys : CacheErase(key)

Spec == Init /\ [][Next]_vars


(***************************************************************************)
(* Properties of the cache, single caller (Spec).                          *)
(***************************************************************************)
ShardOfKey(key) == Shard(HashSlice(key))

\* What Lookup(key) would return now, and after the step.
Find(key) == Lookup_Find(StateOf(ShardOfKey(key)), key, HashSlice(key))

StateOfNext(s) ==
    [heap |-> heap', c |-> shard_'[s], deleted |-> deleted', ok |-> ok']

FindNext(key) ==
    Lookup_Find(StateOfNext(ShardOfKey(key)), key, HashSlice(key))

IndexSetNext(s) == SeqSet(Flatten(shard_'[s].table_.list_))

ListSetNext(s) == SeqSet(shard_'[s].lru_)

Live(h) == heap[h].state = "live"

\* C1: an entry is never freed while a caller handle on it is outstanding:
\* its deleter has not run and Value(handle) still returns the object passed
\* to the Insert that created it (object n for entry n), also when the entry
\* is no longer in the index (erased, evicted or replaced).
C1_HeldEntryStaysValid ==
    \A h \in Handles :
        held[h] > 0 => Live(h) /\ deleted[h] = 0 /\ Value(h) = h

\* A caller holds an entry that has left the index while another entry of
\* the same key is in it.
C1_Witness ==
    \E h, g \in Handles :
        /\ held[h] > 0 /\ ~InIndex(h) /\ Live(h)
        /\ g # h /\ InIndex(g) /\ heap[g].key = heap[h].key

\* Sum of the charges of the entries of shard s that the step frees.
FreedCharge(s) ==
    SumTo([h \in Handles |->
              IF Live(h) /\ heap'[h].state = "freed"
                 /\ Shard(heap[h].hash) = s
              THEN heap[h].charge ELSE 0], MaxEntries)

\* Charge of the entry the step inserts into shard s.
InsertedCharge(s) ==
    IF nextAddr' # nextAddr /\ Shard(heap'[nextAddr].hash) = s
    THEN heap'[nextAddr].charge ELSE 0

\* C2: the deleter of an entry runs at most once, exactly in the step that
\* takes the entry's reference count to 0, when it is out of the index and no
\* caller handle is left, and that step takes the entry's charge off the
\* usage of its shard.
C2_DeleterExactlyAtZero ==
    [][/\ \A h \in Handles :
            /\ deleted'[h] <= 1
            /\ deleted'[h] \in {deleted[h], deleted[h] + 1}
            /\ (deleted'[h] = deleted[h] + 1)
                   <=> (heap[h].refs > 0 /\ heap'[h].refs = 0)
            /\ (deleted'[h] = deleted[h] + 1)
                   => (held'[h] = 0 /\ ~InIndex(h)' /\ heap'[h].state = "freed")
       /\ \A s \in ShardIds :
            shard_'[s].usage_ =
                shard_[s].usage_ + InsertedCharge(s) - FreedCharge(s)
      ]_vars

\* A Release has just freed an entry that had left the index before.
C2_Witness ==
    /\ last.op = "Release"
    /\ deleted[last.ret] = 1
    /\ heap[last.ret].state = "freed"

\* C3 as claimed: after every Insert the usage of the shard is at most its
\* capacity.
C3_UsageWithinCapacity ==
    last.op = "Insert" =>
        \A s \in ShardIds : shard_[s].usage_ <= shard_[s].capacity_

\* C3 amended: after every Insert the usage of the shard is at most its
\* capacity, or its LRU list and index are empty (what is left of the usage
\* belongs to entries only callers hold).
C3_UsageWithinCapacityOrEmpty ==
    last.op = "Insert" =>
        \A s \in ShardIds :
            \/ shard_[s].usage_ <= shard_[s].capacity_
            \/ (shard_[s].lru_ = << >> /\ IndexSet(s) = {})

\* An Insert has returned with the usage above the capacity.
C3_Witness ==
    /\ last.op = "Insert"
    /\ \E s \in ShardIds :
           /\ shard_[s].usage_ > shard_[s].capacity_
           /\ shard_[s].lru_ = << >>

\* Position of x in sequence q, 0 if it is not in it.
IndexOf(q, x) ==
    IF \E i \in 1 .. Len(q) : q[i] = x
    THEN CHOOSE i \in 1 .. Len(q) : q[i] = x
    ELSE 0

\* The LRU list an Insert of key k returning `new` leaves before it evicts:
\* the entry of k unlinked, the new entry appended.
ListBeforeEviction(s, k, new) ==
    SelectSeq(shard_[s].lru_, LAMBDA h : heap[h].key # k) \o <<new>>

\* C4 as claimed: an Insert evicts an entry a caller holds only while an
\* entry no caller holds is left in the LRU list; pinned entries with only
\* pinned entries behind them stay in the list and the index.
C4_PinnedEntriesStay ==
    [][last'.op = "Insert" =>
        LET s == ShardOfKey(last'.key)
            lru == shard_[s].lru_
        IN \A i \in 1 .. Len(lru) :
               (/\ held[lru[i]] > 0
                /\ heap[lru[i]].key # last'.key
                /\ \A j \in i .. Len(lru) : held[lru[j]] > 0)
               => (lru[i] \in ListSetNext(s) /\ lru[i] \in IndexSetNext(s))
      ]_vars

\* C4 amended: the eviction loop goes on while usage > capacity and the LRU
\* list is not empty, whoever holds its entries: it takes the entries off
\* the front of the list and out of the index, frees those no caller holds
\* and leaves the pinned ones to their callers' Release, stops as soon as
\* usage <= capacity, and leaves usage above capacity only with an empty
\* list.
C4_EvictsPinnedToo ==
    [][last'.op = "Insert" =>
        LET k == last'.key
            new == last'.ret
            s == ShardOfKey(k)
            L == ListBeforeEviction(s, k, new)
            n == Len(L) - Len(shard_'[s].lru_)
        IN /\ n >= 0
           /\ shard_'[s].lru_ = SubSeq(L, n + 1, Len(L))
           /\ \A i \in 1 .. n :
                  /\ L[i] \notin IndexSetNext(s)
                  /\ (heap'[L[i]].state = "freed") <=> (held'[L[i]] = 0)
                  /\ held'[L[i]] > 0 => heap'[L[i]].state = "live"
           /\ shard_'[s].usage_ > shard_'[s].capacity_
                  => shard_'[s].lru_ = << >>
           /\ n > 0 =>
                  shard_'[s].usage_
                      + (IF held'[L[n]] = 0 THEN heap[L[n]].charge ELSE 0)
                  > shard_'[s].capacity_
      ]_vars

\* An Insert has evicted its own entry, pinned by the handle it returned,
\* and another entry a caller holds.
C4_Witness ==
    /\ last.op = "Insert"
    /\ ~InIndex(last.ret) /\ Live(last.ret) /\ held[last.ret] = 1
    /\ \E h \in Handles :
           h # last.ret /\ held[h] > 0 /\ Live(h) /\ ~InIndex(h)

\* C5: an Insert evicts the entries no caller holds in least-recently-used
\* order, recency being set by Insert and refreshed by each Lookup hit: when
\* it evicts an unreferenced entry, no unreferenced entry used less recently
\* is left in the index.
C5_EvictsInLRUOrder ==
    [][last'.op = "Insert" =>
        LET s == ShardOfKey(last'.key)
        IN \A h \in IndexSet(s) :
               (/\ h \notin IndexSetNext(s)
                /\ heap[h].key # last'.key
                /\ held[h] = 0)
               => \A g \in IndexSetNext(s) \ {last'.ret} :
                      held[g] = 0
                          => IndexOf(useOrder, g) > IndexOf(useOrder, h)
      ]_vars

\* After an Insert an entry no caller holds is in the index although an
\* entry inserted after it has been freed.
C5_Witness ==
    /\ last.op = "Insert"
    /\ InIndex(last.ret)
    /\ \E g, h \in Handles :
           /\ g < h /\ h < last.ret
           /\ InIndex(g) /\ held[g] = 0
           /\ heap[h].state = "freed"

\* C6: Insert(k, v) creates the entry with 2 references (1 if it evicted
\* the entry at once) and leaves no other entry of k in the index, so that
\* Lookup(k) finds the entry with v while it is in the index; the entry that
\* was stored under k leaves the index and the list in that step and is
\* freed in it exactly if no caller holds it.
C6_InsertReplaces ==
    /\ [](\A h \in Handles :
              InIndex(h) => (Find(heap[h].key) = h /\ Value(h) = h))
    /\ [][last'.op = "Insert" =>
            LET k == last'.key
                new == last'.ret
                s == ShardOfKey(k)
                old == Find(k)
            IN /\ \A h \in IndexSetNext(s) : heap'[h].key = k => h = new
               /\ new \in IndexSetNext(s) =>
                      /\ heap'[new].refs = 2
                      /\ FindNext(k) = new
                      /\ heap'[new].value = new
               /\ new \notin IndexSetNext(s) =>
                      (heap'[new].refs = 1 /\ FindNext(k) = NULL)
               /\ old # NULL =>
                      /\ old \notin IndexSetNext(s)
                      /\ old \notin ListSetNext(s)
                      /\ (heap'[old].state = "freed") <=> (held[old] = 0)
          ]_vars

\* An Insert has replaced an entry of its key that a caller still holds.
C6_Witness ==
    /\ last.op = "Insert"
    /\ InIndex(last.ret)
    /\ \E old \in Handles :
           /\ old # last.ret /\ Live(old) /\ held[old] > 0
           /\ heap[old].key = last.key /\ ~InIndex(old)

\* C7: a Lookup hit followed at once by the Release of the handle restores
\* the reference count of the entry and leaves usage, index and every other
\* entry as before the Lookup (the LRU list holds the same entries); a miss
\* changes nothing.
C7_LookupReleaseRestores ==
    [][last'.op = "Lookup" =>
        LET s == ShardOfKey(last'.key)
            e == last'.ret
        IN IF e = NULL
           THEN UNCHANGED <<heap, shard_, deleted, ok, nextAddr, held>>
           ELSE LET st2 == Release(StateOfNext(s), e)
                IN /\ heap'[e].refs = heap[e].refs + 1
                   /\ st2.heap = heap
                   /\ st2.c.usage_ = shard_[s].usage_
                   /\ st2.c.table_ = shard_[s].table_
                   /\ SeqSet(st2.c.lru_) = ListSet(s)
                   /\ Len(st2.c.lru_) = Len(shard_[s].lru_)
                   /\ st2.deleted = deleted
                   /\ st2.ok
      ]_vars

\* A Lookup has hit an entry that was not the newest of its list.
C7_Witness ==
    /\ last.op = "Lookup"
    /\ last.ret # NULL
    /\ \E h \in Handles :
           /\ h > last.ret
           /\ h \in ListSet(ShardOfKey(last.key))

\* C8: after Erase(k) Lookup(k) returns none until k is inserted again; the
\* erased entry is freed in that step exactly if no caller holds it; Erase
\* of a key that is not in the index changes nothing.
C8_Erase ==
    /\ [][last'.op = "Erase" =>
            LET k == last'.key
                s == ShardOfKey(k)
                e == Find(k)
            IN /\ FindNext(k) = NULL
               /\ e = NULL =>
                      UNCHANGED <<heap, shard_, deleted, ok, nextAddr, held>>
               /\ e # NULL =>
                      /\ e \notin ListSetNext(s)
                      /\ (heap'[e].state = "freed") <=> (held[e] = 0)
                      /\ held[e] > 0 => heap'[e].refs = heap[e].refs - 1
          ]_vars
    /\ [][\A k \in Keys :
              (Find(k) = NULL /\ FindNext(k) # NULL)
                  => (last'.op = "Insert" /\ last'.key = k)
          ]_vars

\* An Erase has removed an entry that a caller still holds.
C8_Witness ==
    /\ last.op = "Erase"
    /\ Find(last.key) = NULL
    /\ \E h \in Handles :
           /\ held[h] > 0 /\ Live(h) /\ ~InIndex(h)
           /\ heap[h].key = last.key
           /\ heap[h].refs = held[h]

(***************************************************************************)
(* Concurrent callers (SpecMT).  A call computes the hash and the shard    *)
(* without a lock, then runs the LRUCache method of the shard inside       *)
(* MutexLock l(&mutex_); the steps of a method are the threads' atomic     *)
(* steps.  malloc gives every thread addresses of an arena of its own.     *)
(* A thread enters a method (the call and the lock in one step) only when  *)
(* the mutex of the shard is free; until then it is idle in the model.     *)
(***************************************************************************)
MTKeys == {"a", "d"}

\* Half of the heap is divided into the arenas of the threads.
ArenaSize == MaxEntries \div (2 * Cardinality(Threads))

ThreadIndex(t) == IF t = "t1" THEN 1 ELSE 2

\* The n-th address malloc returns to thread t.
Addr(t, n) == (ThreadIndex(t) - 1) * ArenaSize + n

ShardOfCall(t) == Shard(call[t].hash)

\* A lock that never waits.
MutexFree_NoWait(s) == TRUE

\* port::Mutex::Lock returns only when no thread holds the mutex.
MutexFree(s) == mutex_[s] = NoThread

\* Calls in progress that may hand a handle to their caller.
PendingHandles ==
    Cardinality({t \in Threads : call[t].op \in {"Insert", "Lookup"}})

MT_Frame == UNCHANGED <<nextAddr, last, useOrder, idVars, tblVars, fmtVars, envVars>>

\* The call c run as a whole by thread t on the sequential cache q:
\* [st |-> state of the shard after, ret |-> result].
SeqApply(q, t, c) ==
    LET s == Shard(c.hash)
        st == [heap |-> q.heap, c |-> q.shard_[s], deleted |-> q.deleted,
               ok |-> q.ok]
    IN CASE c.op = "Insert" ->
                Insert(st, c.key, c.hash, Addr(t, arena[t] + 1), c.charge,
                       Addr(t, arena[t] + 1))
         [] c.op = "Lookup" -> Lookup(st, c.key, c.hash)
         [] c.op = "Release" -> [st |-> Release(st, c.handle), ret |-> NULL]
         [] OTHER -> [st |-> Erase(st, c.key, c.hash), ret |-> NULL]

\* MutexLock l(&mutex_) of shard s by a thread that is outside every method.
MT_Acquire(t, s) ==
    /\ ok /\ pc[t] = "idle"
    /\ MutexFree(s)
    /\ mutex_' = [mutex_ EXCEPT ![s] = t]

\* Thread t enters the method of call c: the ShardedLRUCache method has
\* computed the shard, MutexLock l(&mutex_) has got the mutex.
MT_Lock(t, c, first) ==
    /\ MT_Acquire(t, Shard(c.hash))
    /\ call' = [call EXCEPT ![t] = c]
    /\ pc' = [pc EXCEPT ![t] = first]
    /\ LET r == SeqApply(seq, t, c)
       IN /\ seq' = [heap |-> r.st.heap,
                     shard_ |-> [seq.shard_ EXCEPT ![Shard(c.hash)] = r.st.c],
                     deleted |-> r.st.deleted,
                     ok |-> r.st.ok]
          /\ seqRet' = [seqRet EXCEPT ![t] = r.ret]
    /\ UNCHANGED <<heap, shard_, deleted, ok, e_, arena>>
    /\ MT_Frame

\* ShardedLRUCache::Insert up to the lock of LRUCache::Insert.
MT_CallInsert(t, key, charge) ==
    /\ arena[t] < ArenaSize
    /\ TotalHeld + PendingHandles < MaxHeld
    /\ MT_Lock(t, [op |-> "Insert", key |-> key, hash |-> HashSlice(key),
                   charge |-> charge, handle |-> NULL], "Insert_Link")
    /\ UNCHANGED held

\* ShardedLRUCache::Lookup up to the lock of LRUCache::Lookup.
MT_CallLookup(t, key) ==
    /\ TotalHeld + PendingHandles < MaxHeld
    /\ MT_Lock(t, [op |-> "Lookup", key |-> key, hash |-> HashSlice(key),
                   charge |-> 0, handle |-> NULL], "Lookup_Find")
    /\ UNCHANGED held

\* ShardedLRUCache::Release up to the lock of LRUCache::Release: the thread
\* takes one of the handles the callers hold and reads its hash.
MT_CallRelease(t, handle) ==
    /\ held[handle] > 0
    /\ held' = [held EXCEPT ![handle] = @ - 1]
    /\ MT_Lock(t, [op |-> "Release", key |-> "", hash |-> heap[handle].hash,
                   charge |-> 0, handle |-> handle], "Release_Unref")

\* ShardedLRUCache::Erase up to the lock of LRUCache::Erase.
MT_CallErase(t, key) ==
    /\ MT_Lock(t, [op |-> "Erase", key |-> key, hash |-> HashSlice(key),
                   charge |-> 0, handle |-> NULL], "Erase_Remove")
    /\ UNCHANGED held

\* A step of the method of thread t that takes the shard to state st and
\* the thread to `next`, with e as its local e.
MT_Step(t, st, next, e) ==
    /\ Commit(ShardOfCall(t), st)
    /\ pc' = [pc EXCEPT ![t] = next]
    /\ e_' = [e_ EXCEPT ![t] = e]
    /\ UNCHANGED <<held, call, mutex_, seq, seqRet>>
    /\ MT_Frame

MT_InsertLink(t) ==
    /\ ok /\ pc[t] = "Insert_Link"
    /\ LET e == Addr(t, arena[t] + 1)
       IN MT_Step(t, Insert_Link(StateOf(ShardOfCall(t)), call[t].key,
                                 call[t].hash, e, call[t].charge, e),
                  "Insert_Replace", e)
    /\ arena' = [arena EXCEPT ![t] = @ + 1]

MT_InsertReplace(t) ==
    /\ ok /\ pc[t] = "Insert_Replace"
    /\ MT_Step(t, Insert_Replace(StateOf(ShardOfCall(t)), e_[t]),
               "Insert_Evict", e_[t])
    /\ UNCHANGED arena

\* The eviction loop: one iteration, or its exit.
MT_InsertEvict(t) ==
    /\ ok /\ pc[t] = "Insert_Evict"
    /\ LET st == StateOf(ShardOfCall(t))
       IN IF Insert_MustEvict(st)
          THEN MT_Step(t, Insert_EvictOne(st), "Insert_Evict", e_[t])
          ELSE MT_Step(t, st, "unlock", e_[t])
    /\ UNCHANGED arena

MT_LookupFind(t) ==
    /\ ok /\ pc[t] = "Lookup_Find"
    /\ LET st == StateOf(ShardOfCall(t))
           e == Lookup_Find(st, call[t].key, call[t].hash)
       IN MT_Step(t, st, IF e # NULL THEN "Lookup_Ref" ELSE "unlock", e)
    /\ UNCHANGED arena

MT_LookupRef(t) ==
    /\ ok /\ pc[t] = "Lookup_Ref"
    /\ MT_Step(t, Lookup_Ref(StateOf(ShardOfCall(t)), e_[t]), "unlock", e_[t])
    /\ UNCHANGED arena

MT_ReleaseUnref(t) ==
    /\ ok /\ pc[t] = "Release_Unref"
    /\ MT_Step(t, Release(StateOf(ShardOfCall(t)), call[t].handle), "unlock",
               NULL)
    /\ UNCHANGED arena

MT_EraseRemove(t) ==
    /\ ok /\ pc[t] = "Erase_Remove"
    /\ LET st == StateOf(ShardOfCall(t))
           r == HT_Remove(st.c.table_, call[t].key, call[t].hash, st.heap)
       IN MT_Step(t, [st EXCEPT !.c.table_ = r.t],
                  IF r.result # NULL THEN "Erase_Unlink" ELSE "unlock",
                  r.result)
    /\ UNCHANGED arena

MT_EraseUnlink(t) ==
    /\ ok /\ pc[t] = "Erase_Unlink"
    /\ MT_Step(t, Erase_Unlink(StateOf(ShardOfCall(t)), e_[t]), "unlock", NULL)
    /\ UNCHANGED arena

\* The end of the method: ~MutexLock, and the handle of an Insert or of a
\* Lookup hit goes to the caller.
MT_Unlock(t) ==
    /\ ok /\ pc[t] = "unlock"
    /\ mutex_' = [mutex_ EXCEPT ![ShardOfCall(t)] = NoThread]
    /\ held' = IF call[t].op \in {"Insert", "Lookup"} /\ e_[t] # NULL
               THEN [held EXCEPT ![e_[t]] = @ + 1]
               ELSE held
    /\ pc' = [pc EXCEPT ![t] = "idle"]
    /\ call' = [call EXCEPT ![t] = NoCall]
    /\ e_' = [e_ EXCEPT ![t] = NULL]
    /\ UNCHANGED <<heap, shard_, deleted, ok, arena, seq, seqRet>>
    /\ MT_Frame

MTNext ==
    \E t \in Threads :
        \/ \E key \in MTKeys, charge \in Charges : MT_CallInsert(t, key, charge)
        \/ \E key \in MTKeys : MT_CallLookup(t, key)
        \/ \E handle \in Handles : MT_CallRelease(t, handle)
        \/ \E key \in MTKeys : MT_CallErase(t, key)
        \/ MT_InsertLink(t)
        \/ MT_InsertReplace(t)
        \/ MT_InsertEvict(t)
        \/ MT_LookupFind(t)
        \/ MT_LookupRef(t)
        \/ MT_ReleaseUnref(t)
        \/ MT_EraseRemove(t)
        \/ MT_EraseUnlink(t)
        \/ MT_Unlock(t)

SpecMT == Init /\ [][MTNext]_vars

InCS(t) == pc[t] # "idle"

\* C9: calls on the same shard run one at a time under the mutex of the
\* shard, so that whenever a shard is unlocked it is in the state, and every
\* call has returned the result, of the calls run one after the other in the
\* order they got the lock; a call changes only its own shard and its
\* entries, and can start whenever the mutex of its own shard is free.
C9_ShardsSerialized ==
    /\ [](/\ \A t \in Threads :
                InCS(t) =>
                    /\ mutex_[ShardOfCall(t)] = t
                    /\ \A u \in Threads \ {t} :
                           InCS(u) => ShardOfCall(u) # ShardOfCall(t)
          /\ \A s \in ShardIds :
                mutex_[s] = NoThread => shard_[s] = seq.shard_[s]
          /\ (\A s \in ShardIds : mutex_[s] = NoThread) =>
                (heap = seq.heap /\ deleted = seq.deleted /\ ok = seq.ok)
          /\ \A t \in Threads :
                pc[t] = "unlock" =>
                    /\ shard_[ShardOfCall(t)] = seq.shard_[ShardOfCall(t)]
                    /\ call[t].op \in {"Insert", "Lookup"}
                           => e_[t] = seqRet[t]
          /\ \A t \in Threads, k \in MTKeys :
                (ok /\ pc[t] = "idle" /\ mutex_[ShardOfKey(k)] = NoThread)
                    => ENABLED MT_Acquire(t, ShardOfKey(k)))
    /\ [][/\ \A s \in ShardIds :
                shard_'[s] # shard_[s] =>
                    \E t \in Threads :
                        InCS(t) /\ ShardOfCall(t) = s /\ mutex_[s] = t
          /\ \A h \in Handles :
                heap'[h] # heap[h] =>
                    \E t \in Threads :
                        /\ InCS(t)
                        /\ \/ Shard(heap[h].hash) = ShardOfCall(t)
                           \/ (heap[h].state = "none"
                               /\ Shard(heap'[h].hash) = ShardOfCall(t))
         ]_vars

\* Two threads are inside methods of different shards at the same time, one
\* of them having changed its shard already.
C9_Witness ==
    \E t, u \in Threads :
        /\ t # u /\ InCS(t) /\ InCS(u)
        /\ ShardOfCall(t) # ShardOfCall(u)
        /\ pc[t] = "Insert_Evict" /\ pc[u] \in {"Lookup_Ref", "Erase_Unlink"}

(***************************************************************************)
(* ShardedLRUCache::NewId by concurrent callers (SpecId):                  *)
(* MutexLock l(&id_mutex_); return ++(last_id_); the increment is a load   *)
(* and a store of last_id_.                                                *)
(***************************************************************************)
\* An id_mutex_ that never waits.
IdMutexFree_NoWait == TRUE

\* port::Mutex::Lock on id_mutex_ returns only when no thread holds it.
IdMutexFree == id_mutex_ = NoThread

Id_Frame == UNCHANGED <<cacheVars, mtVars, tblVars, fmtVars, envVars>>

\* Calls of NewId begun so far.
IdCalls == Len(ids) + Cardinality({t \in Threads : idpc[t] \in {"lock", "load", "store"}})

Id_Call(t) ==
    /\ idpc[t] = "idle"
    /\ IdCalls < MaxIds
    /\ idpc' = [idpc EXCEPT ![t] = "lock"]
    /\ UNCHANGED <<last_id_, id_mutex_, idreg, idret, ids>>
    /\ Id_Frame

Id_Lock(t) ==
    /\ idpc[t] = "lock"
    /\ IdMutexFree
    /\ id_mutex_' = t
    /\ idpc' = [idpc EXCEPT ![t] = "load"]
    /\ UNCHANGED <<last_id_, idreg, idret, ids>>
    /\ Id_Frame

Id_Load(t) ==
    /\ idpc[t] = "load"
    /\ idreg' = [idreg EXCEPT ![t] = last_id_ + 1]
    /\ idpc' = [idpc EXCEPT ![t] = "store"]
    /\ UNCHANGED <<last_id_, id_mutex_, idret, ids>>
    /\ Id_Frame

Id_Store(t) ==
    /\ idpc[t] = "store"
    /\ last_id_' = idreg[t]
    /\ ids' = Append(ids, idreg[t])
    /\ idpc' = [idpc EXCEPT ![t] = "unlock"]
    /\ UNCHANGED <<id_mutex_, idreg, idret>>
    /\ Id_Frame

Id_Unlock(t) ==
    /\ idpc[t] = "unlock"
    /\ id_mutex_' = NoThread
    /\ idret' = [idret EXCEPT ![t] = idreg[t]]
    /\ idreg' = [idreg EXCEPT ![t] = 0]
    /\ idpc' = [idpc EXCEPT ![t] = "idle"]
    /\ UNCHANGED <<last_id_, ids>>
    /\ Id_Frame

IdNext ==
    \E t \in Threads :
        \/ Id_Call(t)
        \/ Id_Lock(t)
        \/ Id_Load(t)
        \/ Id_Store(t)
        \/ Id_Unlock(t)

SpecId == Init /\ [][IdNext]_vars

\* C10: the values NewId produces are 1, 2, 3, ... in the order of the
\* increments, every call returns the value of its own increment, which no
\* other call returns, and a thread's next call returns a greater value.
C10_NewIdIncreasing ==
    /\ [](/\ \A i \in 1 .. Len(ids) : ids[i] = i
          /\ last_id_ = Len(ids)
          /\ \A t \in Threads :
                idpc[t] = "unlock" => idreg[t] = ids[Len(ids)]
          /\ \A t, u \in Threads :
                (t # u /\ idret[t] # 0) => idret[t] # idret[u])
    /\ [][\A t \in Threads :
              idret'[t] # idret[t] =>
                  /\ idret'[t] > idret[t]
                  /\ \A u \in Threads : idret'[t] > idret[u]
         ]_vars

\* Both threads have got ids, the second while the first was waiting for
\* the lock again.
C10_Witness ==
    /\ Len(ids) >= 3
    /\ \E t, u \in Threads :
           /\ t # u
           /\ idret[t] = 1 /\ idret[u] >= 2
           /\ idpc[t] = "lock" /\ idpc[u] = "unlock"

(***************************************************************************)
(* InternalKeyComparator::Compare on internal keys built by                *)
(* AppendInternalKey (SpecCmp).                                            *)
(***************************************************************************)
UserKeys == {<<97>>, <<97, 98>>, <<98>>}

SequenceNumbers == 1 .. MaxSeq

ParsedInternalKeys ==
    [user_key : UserKeys, sequence : SequenceNumbers, type : ValueTypes]

\* A caller compares a with b, b with a, b with c and a with c.
CmpCompare(a, b, c) ==
    LET akey == AppendInternalKey(<< >>, a)
        bkey == AppendInternalKey(<< >>, b)
        ckey == AppendInternalKey(<< >>, c)
    IN /\ ~cmp.called
       /\ cmp' = [called |-> TRUE, a |-> a, b |-> b, c |-> c,
                  ab |-> InternalKeyComparator_Compare(akey, bkey),
                  ba |-> InternalKeyComparator_Compare(bkey, akey),
                  bc |-> InternalKeyComparator_Compare(bkey, ckey),
                  ac |-> InternalKeyComparator_Compare(akey, ckey)]
       /\ UNCHANGED <<cacheVars, mtVars, idVars, fmtVars, envVars, mem, bb, fb>>

CmpNext == \E a, b, c \in ParsedInternalKeys : CmpCompare(a, b, c)

SpecCmp == Init /\ [][CmpNext]_vars

Sign(x) == IF x < 0 THEN -1 ELSE IF x > 0 THEN 1 ELSE 0

\* C12 as claimed: for internal keys a and b with equal user key,
\* Compare(a, b) < 0 if and only if sequence(a) > sequence(b).
C12_EqualUserKeyBySequence ==
    (cmp.called /\ cmp.a.user_key = cmp.b.user_key)
        => (cmp.ab < 0 <=> cmp.a.sequence > cmp.b.sequence)

\* C12: for internal keys a and b with equal user key, Compare(a, b) < 0 if
\* and only if sequence(a) > sequence(b), or the sequences are equal and
\* type(a) > type(b).
C12_EqualUserKeyBySequenceThenType ==
    (cmp.called /\ cmp.a.user_key = cmp.b.user_key)
        => (cmp.ab < 0 <=>
               \/ cmp.a.sequence > cmp.b.sequence
               \/ /\ cmp.a.sequence = cmp.b.sequence
                  /\ cmp.a.type > cmp.b.type)

\* Equal user key and sequence, a value compared with a deletion.
C12_Witness ==
    /\ cmp.called
    /\ cmp.a.user_key = cmp.b.user_key
    /\ cmp.a.sequence = cmp.b.sequence
    /\ cmp.a.type = kTypeValue /\ cmp.b.type = kTypeDeletion
    /\ cmp.ab < 0

\* The lexicographic order on (user key ascending, sequence descending,
\* type descending), as a sign.
LexCompare(a, b) ==
    IF user_comparator_Compare(a.user_key, b.user_key) # 0
    THEN Sign(user_comparator_Compare(a.user_key, b.user_key))
    ELSE IF a.sequence # b.sequence
         THEN (IF a.sequence > b.sequence THEN -1 ELSE 1)
         ELSE IF a.type # b.type
              THEN (IF a.type > b.type THEN -1 ELSE 1)
              ELSE 0

\* C13: Compare is the lexicographic order by user key ascending, then
\* sequence descending, then type descending: for unequal user keys its sign
\* is the user comparator's, it is 0 only for equal user key, sequence and
\* type, and it is antisymmetric and transitive.
C13_LexicographicOrder ==
    cmp.called =>
        /\ Sign(cmp.ab) = LexCompare(cmp.a, cmp.b)
        /\ Sign(cmp.bc) = LexCompare(cmp.b, cmp.c)
        /\ cmp.a.user_key # cmp.b.user_key =>
               Sign(cmp.ab) =
                   Sign(user_comparator_Compare(cmp.a.user_key, cmp.b.user_key))
        /\ cmp.ab = 0 <=> cmp.a = cmp.b
        /\ Sign(cmp.ab) = -Sign(cmp.ba)
        /\ (cmp.ab < 0 /\ cmp.bc < 0) => cmp.ac < 0
        /\ (cmp.ab <= 0 /\ cmp.bc <= 0) => cmp.ac <= 0

\* a before b by the sequence, b before c by the type, the user key of a
\* a prefix of another user key compared in the same call.
C13_Witness ==
    /\ cmp.called
    /\ cmp.a.user_key = cmp.b.user_key /\ cmp.b.user_key = cmp.c.user_key
    /\ cmp.a.sequence > cmp.b.sequence
    /\ cmp.b.sequence = cmp.c.sequence /\ cmp.b.type > cmp.c.type
    /\ cmp.ab < 0 /\ cmp.bc < 0 /\ cmp.ac < 0 /\ cmp.ba > 0

(***************************************************************************)
(* MemTable::Add and MemTable::Get by one caller (SpecMem).                *)
(***************************************************************************)
MemKeys == {<<97>>, <<97, 98>>}

\* The values a Put adds; a Delete adds the empty value.
MemValues(type) == IF type = kTypeValue THEN {<< >>, <<120>>} ELSE {<< >>}

Mem_Frame == UNCHANGED <<cacheVars, mtVars, idVars, fmtVars, envVars, cmp, bb, fb>>

\* MemTable::Add(s, type, key, value); no two entries of a user key get
\* the same sequence number.
MemAdd(s, type, key, value) ==
    /\ mem.last.op # "Get"
    /\ Cardinality(mem.adds) < MaxAdds
    /\ \A e \in mem.adds : ~(e.user_key = key /\ e.sequence = s)
    /\ mem' = [table_ |-> MemTable_Add(mem.table_, s, type, key, value),
               adds |-> mem.adds \cup {[user_key |-> key, sequence |-> s,
                                        type |-> type, value |-> value]},
               last |-> [op |-> "Add", key |-> key, sequence |-> s,
                         lkey |-> << >>, out |-> NoOut]]
    /\ Mem_Frame

\* MemTable::Get(LookupKey(key, s), &value, &status); a behaviour ends
\* with one call, on any key and sequence number.
MemGet(key, s) ==
    /\ mem.last.op # "Get"
    /\ mem' = [mem EXCEPT !.last =
                   [op |-> "Get", key |-> key, sequence |-> s,
                    lkey |-> memtable_key(LookupKey(key, s)),
                    out |-> MemTable_Get(mem.table_, LookupKey(key, s), NoOut)]]
    /\ Mem_Frame

MemNext ==
    \/ \E s \in SequenceNumbers, type \in ValueTypes, key \in MemKeys :
           \E value \in MemValues(type) : MemAdd(s, type, key, value)
    \/ \E key \in MemKeys, s \in SequenceNumbers : MemGet(key, s)

SpecMem == Init /\ [][MemNext]_vars

\* The entries added for user key k with sequence number at most s.
Visible(k, s) == {e \in mem.adds : e.user_key = k /\ e.sequence <= s}

\* The one of them with the greatest sequence number.
Newest(k, s) ==
    CHOOSE e \in Visible(k, s) : \A d \in Visible(k, s) : d.sequence <= e.sequence

\* C11: Get with LookupKey(k, s) decides on the entry of user key k with
\* the greatest sequence number <= s: true with its value if it is a value,
\* true with status NotFound if it is a deletion, false if there is no such
\* entry; newer entries and entries of other user keys do not matter.
C11_GetNewestVisible ==
    mem.last.op = "Get" =>
        LET k == mem.last.key
            s == mem.last.sequence
            out == mem.last.out
        IN IF Visible(k, s) = {}
           THEN out = NoOut
           ELSE IF Newest(k, s).type = kTypeValue
                THEN out = [ret |-> TRUE, value |-> Newest(k, s).value,
                            s |-> "OK"]
                ELSE out = [ret |-> TRUE, value |-> << >>, s |-> "NotFound"]

\* A Get that reports a deletion lying between an older value it must not
\* fall through to and a newer value it must not see.
C11_Witness ==
    /\ mem.last.op = "Get"
    /\ mem.last.out.ret /\ mem.last.out.s = "NotFound"
    /\ \E old, new \in mem.adds :
           /\ old.user_key = mem.last.key /\ new.user_key = mem.last.key
           /\ old.type = kTypeValue /\ new.type = kTypeValue
           /\ old.value = <<120>>
           /\ old.sequence < Newest(mem.last.key, mem.last.sequence).sequence
           /\ new.sequence > mem.last.sequence
           /\ Newest(mem.last.key, mem.last.sequence).sequence
                  = mem.last.sequence

(***************************************************************************)
(* A BlockBuilder and its caller (SpecBB).  A failed assert aborts the     *)
(* process: nothing happens after it.                                      *)
(***************************************************************************)
BBKeys ==
    {<< >>, <<97>>, <<97, 97>>, <<97, 98>>, <<98>>,
     <<97, 98, 99>>, <<97, 98, 100>>, <<97, 98, 101>>}

BBValues == {<< >>, <<120>>}

BB_Frame == UNCHANGED <<cacheVars, mtVars, idVars, fmtVars, envVars, cmp, mem, fb>>

\* BlockBuilder::Add(key, value).
BB_Add(key, value) ==
    /\ ~bb.aborted
    /\ Len(bb.added) < MaxRecords
    /\ IF BlockBuilder_AddAsserts(bb.b, bb.interval, key)
       THEN bb' = [bb EXCEPT
                      !.b = BlockBuilder_Add(bb.b, bb.interval, key, value),
                      !.added = Append(@, <<key, value>>)]
       ELSE bb' = [bb EXCEPT !.aborted = TRUE]
    /\ BB_Frame

\* BlockBuilder::Finish, called once on a block.
BB_Finish ==
    /\ ~bb.aborted
    /\ ~bb.b.finished_
    /\ bb' = [bb EXCEPT !.b = BlockBuilder_Finish(bb.b),
                        !.data_size = Len(bb.b.buffer_)]
    /\ BB_Frame

\* BlockBuilder::Reset.
BB_Reset ==
    /\ ~bb.aborted
    /\ bb' = [bb EXCEPT !.b = BlockBuilder_Reset(bb.b),
                        !.added = << >>,
                        !.data_size = 0]
    /\ BB_Frame

BBNext ==
    \/ \E key \in BBKeys, value \in BBValues : BB_Add(key, value)
    \/ BB_Finish
    \/ BB_Reset

\* The builder is constructed with any restart interval >= 1.
InitBB ==
    /\ CacheInit /\ MTInit /\ IdInit /\ FmtInit
    /\ CmpInit /\ MemInit /\ FBInit(FALSE)
    /\ \E interval \in 1 .. MaxInterval : BBInit(interval)

SpecBB == InitBB /\ [][BBNext]_vars

RECURSIVE DecodeRecords(_, _, _, _)
\* The records of data[pos + 1 .. limit] read one after the other: three
\* varint32 (shared, non_shared, value length), the key delta, the value;
\* the key is the first `shared` bytes of the previous key and the delta.
DecodeRecords(data, pos, limit, prev) ==
    IF pos >= limit THEN << >>
    ELSE LET shared == GetVarint32(data, pos, limit)
             non_shared == GetVarint32(data, shared.next, limit)
             value_length == GetVarint32(data, non_shared.next, limit)
             p == value_length.next
             key == Take(prev, shared.value)
                    \o SubSeq(data, p + 1, p + non_shared.value)
             value == SubSeq(data, p + non_shared.value + 1,
                             p + non_shared.value + value_length.value)
         IN <<<<key, value>>>>
            \o DecodeRecords(data, p + non_shared.value + value_length.value,
                             limit, key)

\* The restart count stored in the last four bytes of a finished block.
NumRestarts(contents) == DecodeFixed32(contents, Len(contents) - 4)

\* The records of a finished block: all before the restart array.
DecodeBlock(contents) ==
    DecodeRecords(contents, 0,
                  Len(contents) - 4 - 4 * NumRestarts(contents), << >>)

\* C14: decoding the block Finish returns record by record, each key the
\* first `shared` bytes of the previous key followed by the stored delta,
\* gives back the keys and values added, in order.
C14_BlockRoundTrip ==
    bb.b.finished_ => DecodeBlock(bb.b.buffer_) = bb.added

\* A finished block of three records with a restart in the middle, a key
\* stored as a delta and the empty key.
C14_Witness ==
    /\ bb.b.finished_ /\ ~bb.aborted
    /\ bb.interval = 2
    /\ Len(bb.added) = 3
    /\ bb.added[1][1] = << >>
    /\ bb.added[2][1] = <<97, 97>> /\ bb.added[3][1] = <<97, 98>>
    /\ bb.added[2][2] = <<120>>

Ceil(n, r) == (n + r - 1) \div r

\* The number of restart offsets stored in a finished block.
StoredRestarts == (Len(bb.b.buffer_) - 4 - bb.data_size) \div 4

\* C15 as claimed: a finished block of N >= 0 records built with restart
\* interval R has exactly ceil(N/R) restart points.
C15_RestartDensity ==
    bb.b.finished_ =>
        /\ NumRestarts(bb.b.buffer_) = Ceil(Len(bb.added), bb.interval)
        /\ StoredRestarts = Ceil(Len(bb.added), bb.interval)

\* C15: a finished block of N >= 1 records built with restart interval R
\* has exactly ceil(N/R) restart points; a block of no records has one, at
\* offset 0.
C15_RestartDensityNonEmpty ==
    bb.b.finished_ =>
        LET n == IF bb.added = << >> THEN 1
                 ELSE Ceil(Len(bb.added), bb.interval)
        IN /\ NumRestarts(bb.b.buffer_) = n
           /\ StoredRestarts = n
           /\ Len(bb.b.buffer_) = bb.data_size + 4 * n + 4
           /\ bb.added = << >> => DecodeFixed32(bb.b.buffer_, 0) = 0

\* A finished block of three records built with interval 2.
C15_Witness ==
    /\ bb.b.finished_
    /\ bb.interval = 2 /\ Len(bb.added) = 3
    /\ NumRestarts(bb.b.buffer_) = 2

\* C16: Add after Finish fails, Add of a key not greater than the last key
\* of a block that has records fails, a failed Add appends nothing, and the
\* first Add after construction or Reset succeeds whatever the key.
C16_AddRejects ==
    [][\A key \in BBKeys, value \in BBValues :
          BB_Add(key, value) =>
              /\ bb.b.finished_ => bb'.aborted
              /\ (bb.added # << >>
                  /\ BytewiseCompare(key, bb.added[Len(bb.added)][1]) <= 0)
                     => bb'.aborted
              /\ bb'.aborted => (bb'.b = bb.b /\ bb'.added = bb.added)
              /\ (~bb.b.finished_ /\ bb.added = << >>)
                     => (~bb'.aborted /\ bb'.added = <<<<key, value>>>>)
      ]_vars

\* An Add has been rejected on an unfinished block whose one record, of
\* key "b", was accepted.
C16_Witness ==
    /\ bb.aborted
    /\ ~bb.b.finished_
    /\ Len(bb.added) = 1
    /\ bb.added[1][1] = <<98>>
    /\ bb.b.buffer_ # << >>

\* C17: before Finish, CurrentSizeEstimate() is the bytes of the records so
\* far plus 4 for each restart point so far plus 4, which is the length of
\* the buffer Finish would return.
C17_SizeEstimateExact ==
    (~bb.b.finished_) =>
        /\ DecodeRecords(bb.b.buffer_, 0, Len(bb.b.buffer_), << >>) = bb.added
        /\ BlockBuilder_CurrentSizeEstimate(bb.b)
               = Len(bb.b.buffer_) + 4 * Len(bb.b.restarts_) + 4
        /\ BlockBuilder_CurrentSizeEstimate(bb.b)
               = Len(BlockBuilder_Finish(bb.b).buffer_)

\* Three records added, two restart points, not finished.
C17_Witness ==
    /\ ~bb.b.finished_ /\ ~bb.aborted
    /\ Len(bb.added) = 3
    /\ Len(bb.b.restarts_) = 2
    /\ BlockBuilder_CurrentSizeEstimate(bb.b) > 12

(***************************************************************************)
(* A FilterBlockBuilder, the filter block it returns, and a                *)
(* FilterBlockReader on that block, possibly with a damaged offset table   *)
(* (SpecFB).                                                               *)
(***************************************************************************)
FBKeys == {<<97>>, <<98, 98>>}

\* Block offsets: the first and the last of each 2048-byte range.
FBOffsets(buckets) ==
    {b * kFilterBase + d : b \in 0 .. buckets - 1, d \in {0, kFilterBase - 1}}

FBWords == 0 .. MaxWord

\* Bytes a reader may be given: too short for a trailer, and a filter, an
\* offset table, a total length and a base_lg byte of any values.
FBForeign ==
    {<< >>, <<kFilterBaseLg>>, <<0, 0, 0, kFilterBaseLg>>}
    \cup {data \o table \o EncodeFixed32(total) \o <<lg>> :
              data \in {<< >>, <<3>>},
              table \in {<< >>, EncodeFixed32(0),
                         EncodeFixed32(0) \o EncodeFixed32(1)},
              total \in 0 .. MaxWord + 1,
              lg \in {0, kFilterBaseLg, 64, 64 + kFilterBaseLg}}

FB_Frame == UNCHANGED <<cacheVars, mtVars, idVars, fmtVars, envVars, cmp, mem, bb>>

\* FilterBlockBuilder::StartBlock(block_offset).
FB_StartBlock(block_offset) ==
    /\ ~fb.finished /\ ~fb.aborted
    /\ IF FilterBlockBuilder_StartBlockAssert(fb.f, block_offset)
       THEN fb' = [fb EXCEPT
                      !.f = FilterBlockBuilder_StartBlock(fb.f, block_offset),
                      !.bucket = block_offset \div kFilterBase]
       ELSE fb' = [fb EXCEPT !.aborted = TRUE]
    /\ FB_Frame

\* FilterBlockBuilder::AddKey(key).
FB_AddKey(key) ==
    /\ ~fb.finished /\ ~fb.aborted
    /\ fb.nkeys < MaxKeys
    /\ fb' = [fb EXCEPT !.f = FilterBlockBuilder_AddKey(fb.f, key),
                        !.added = @ \cup {<<fb.bucket, key>>},
                        !.nkeys = @ + 1]
    /\ FB_Frame

\* FilterBlockBuilder::Finish, and a FilterBlockReader on the block.
FB_Finish ==
    /\ ~fb.finished /\ ~fb.aborted
    /\ LET g == FilterBlockBuilder_Finish(fb.f)
       IN fb' = [fb EXCEPT !.f = g,
                           !.finished = TRUE,
                           !.contents = g.result_,
                           !.reader = FilterBlockReader_New(g.result_)]
    /\ FB_Frame

\* The block comes back from storage with other words in entries i and
\* i + 1 of its offset table, and a FilterBlockReader is built on it.
FB_Damage(i, start, limit) ==
    /\ fb.finished /\ ~fb.corrupted
    /\ fb.last.op = "none"
    /\ i + 1 < fb.reader.num_
    /\ LET at == fb.reader.offset_ + 4 * i
           contents == Take(fb.contents, at)
                       \o EncodeFixed32(start) \o EncodeFixed32(limit)
                       \o Drop(fb.contents, at + 8)
       IN fb' = [fb EXCEPT !.corrupted = TRUE,
                           !.contents = contents,
                           !.reader = FilterBlockReader_New(contents)]
    /\ FB_Frame

\* A FilterBlockReader is built on bytes no FilterBlockBuilder of this
\* behaviour produced.
FB_Open(contents) ==
    /\ ~fb.finished /\ ~fb.aborted
    /\ fb.f = FilterBlockBuilder_New
    /\ fb' = [fb EXCEPT !.finished = TRUE,
                        !.corrupted = TRUE,
                        !.contents = contents,
                        !.reader = FilterBlockReader_New(contents)]
    /\ FB_Frame

\* FilterBlockReader::KeyMayMatch(block_offset, key); a behaviour ends with
\* one call, on any offset and key.
FB_KeyMayMatch(block_offset, key) ==
    /\ fb.finished
    /\ fb.last.op = "none"
    /\ \E index \in FilterBlockReader_Index(block_offset, fb.reader.base_lg_) :
           fb' = [fb EXCEPT !.last =
                     [op |-> "KeyMayMatch", block_offset |-> block_offset,
                      index |-> index, key |-> key,
                      ret |-> FilterBlockReader_KeyMayMatch(
                                  fb.reader, fb.policy, index, key)]]
    /\ FB_Frame

FBNext ==
    \/ \E block_offset \in FBOffsets(MaxBuckets) : FB_StartBlock(block_offset)
    \/ \E key \in FBKeys : FB_AddKey(key)
    \/ FB_Finish
    \/ \E i \in 0 .. MaxBuckets - 1, start \in FBWords, limit \in FBWords :
           FB_Damage(i, start, limit)
    \/ \E contents \in FBForeign : FB_Open(contents)
    \/ \E block_offset \in FBOffsets(MaxBuckets), key \in FBKeys :
           FB_KeyMayMatch(block_offset, key)

\* The builder and the reader are given any of the policies.
InitFB ==
    /\ CacheInit /\ MTInit /\ IdInit /\ FmtInit
    /\ CmpInit /\ MemInit /\ BBInit(1)
    /\ \E policy \in BOOLEAN : FBInit(policy)

SpecFB == InitFB /\ [][FBNext]_vars

\* The offset-table range the last KeyMayMatch selected.
SelIndex == fb.last.index

SelStart == DecodeFixed32(fb.reader.data_, fb.reader.offset_ + SelIndex * 4)

SelLimit == DecodeFixed32(fb.reader.data_, fb.reader.offset_ + SelIndex * 4 + 4)

Selected == fb.last.op = "KeyMayMatch" /\ SelIndex < fb.reader.num_

\* C18: a StartBlock whose offset is not below the range of the last one
\* passes its assert, and a reader on the finished block answers true for
\* every key added after StartBlock(b) and before the next StartBlock, at
\* every offset of the 2048-byte range of b, whichever policy without false
\* negatives is used.
C18_NoFalseNegatives ==
    /\ []((fb.last.op = "KeyMayMatch" /\ ~fb.corrupted
           /\ <<fb.last.block_offset \div kFilterBase, fb.last.key>>
                  \in fb.added)
              => fb.last.ret)
    /\ [][\A block_offset \in FBOffsets(MaxBuckets) :
              (FB_StartBlock(block_offset)
               /\ block_offset \div kFilterBase >= fb.bucket)
                  => ~fb'.aborted
         ]_vars

\* A key of the third range found at the last offset of the range, the
\* second range having no keys and the first another key.
C18_Witness ==
    /\ fb.last.op = "KeyMayMatch" /\ ~fb.corrupted
    /\ fb.last.block_offset = 3 * kFilterBase - 1
    /\ fb.added = {<<0, <<97>>>>, <<2, fb.last.key>>}
    /\ fb.last.key = <<98, 98>>
    /\ fb.last.ret

\* C19 as claimed: KeyMayMatch returns false for every key whenever the
\* range selected for the bucket is empty (start = limit), whatever the
\* policy would answer.
C19_EmptyRangeNoMatch ==
    (Selected /\ SelStart = SelLimit) => ~fb.last.ret

\* C20 as claimed: KeyMayMatch returns true for every key whenever the limit
\* of the range selected lies beyond the total filter length, for every
\* start.
C20_InvalidRangeFailsOpen ==
    (Selected /\ SelLimit > fb.reader.offset_) => fb.last.ret

\* The total filter length a block states in the four bytes before its
\* last; -1 when the block is too short to state one.
StatedTotal(contents) ==
    IF Len(contents) < 5 THEN -1
    ELSE DecodeFixed32(contents, Len(contents) - 5)

\* C21: a reader built from fewer than 5 bytes, or from a block whose stated
\* total filter length exceeds its size minus 5, answers true to every
\* KeyMayMatch; and every reader answers true when block_offset >> base_lg
\* is not smaller than the number of filters it decoded.
C21_MalformedFailsOpen ==
    fb.last.op = "KeyMayMatch" =>
        /\ (Len(fb.contents) < 5
            \/ StatedTotal(fb.contents) > Len(fb.contents) - 5) => fb.last.ret
        /\ fb.last.index >= fb.reader.num_ => fb.last.ret

\* A five-byte block stating a total length of 1, asked under the policy
\* that answers false on an empty filter.
C21_Witness ==
    /\ fb.last.op = "KeyMayMatch"
    /\ Len(fb.contents) = 5 /\ StatedTotal(fb.contents) = 1
    /\ ~fb.policy
    /\ fb.last.ret

\* The keys of the blocks whose offset lies in range i: those added after
\* a StartBlock of the range and before the next StartBlock.  Keys added
\* before the first StartBlock are keys of the block at offset 0.
KeysOfRange(i) ==
    {e[2] : e \in {x \in fb.added : (IF x[1] < 0 THEN 0 ELSE x[1]) = i}}

RECURSIVE SetToSeq(_)
SetToSeq(S) ==
    IF S = {} THEN << >>
    ELSE LET x == CHOOSE y \in S : TRUE IN <<x>> \o SetToSeq(S \ {x})

\* The filter of a set of keys: none for no keys, else what the policy
\* creates for them.
ExpectedFilter(keys) ==
    IF keys = {} THEN << >> ELSE Policy_CreateFilter(SetToSeq(keys), << >>)

\* The bytes of filter i in a builder not yet finished.
BuilderFilter(f, i) ==
    SubSeq(f.result_, f.filter_offsets_[i + 1] + 1,
           IF i + 2 <= Len(f.filter_offsets_) THEN f.filter_offsets_[i + 2]
           ELSE Len(f.result_))

\* The bytes of filter i in a finished block: from offset i to offset i + 1
\* of its table, the total length closing the table.
BlockFilter(contents, i) ==
    SubSeq(contents,
           DecodeFixed32(contents, StatedTotal(contents) + 4 * i) + 1,
           DecodeFixed32(contents, StatedTotal(contents) + 4 * i + 4))

\* C22: with block offsets that do not go back to an earlier range, after
\* StartBlock(o) the number of closed filters is floor(o / 2048); every
\* closed filter i holds exactly the keys of the blocks with offset in
\* [i * 2048, (i + 1) * 2048) and is zero-length when there are none, in
\* the builder and in the finished block, which loses no key.
C22_FilterPerRange ==
    /\ []((~fb.aborted /\ ~fb.corrupted) =>
             IF ~fb.finished
             THEN \A i \in 0 .. Len(fb.f.filter_offsets_) - 1 :
                      BuilderFilter(fb.f, i) = ExpectedFilter(KeysOfRange(i))
             ELSE /\ \A i \in 0 .. fb.reader.num_ - 1 :
                         BlockFilter(fb.contents, i)
                             = ExpectedFilter(KeysOfRange(i))
                  /\ \A e \in fb.added : e[1] < fb.reader.num_)
    /\ [][\A block_offset \in FBOffsets(MaxBuckets) :
              (FB_StartBlock(block_offset)
               /\ block_offset \div kFilterBase >= fb.bucket)
                  => /\ ~fb'.aborted
                     /\ Len(fb'.f.filter_offsets_)
                            = block_offset \div kFilterBase
         ]_vars

\* StartBlock at the last offset of the third range closed the filter of
\* the first range with its key and an empty one for the second.
C22_Witness ==
    /\ ~fb.finished /\ ~fb.aborted
    /\ fb.bucket = 2
    /\ fb.added = {<<0, <<98, 98>>>>}
    /\ Len(fb.f.filter_offsets_) = 2
    /\ BuilderFilter(fb.f, 0) # << >>
    /\ BuilderFilter(fb.f, 1) = << >>

(***************************************************************************)
(* The footer: handles set, encoded, read back damaged or not, decoded     *)
(* (SpecFt).                                                               *)
(***************************************************************************)
\* Handles of short, middle and longest encodings: (100, 50), (150, 80),
\* (0, 128) and (2^64 - 2, 2^63).
FtHandles ==
    {[offset_ |-> U64(100), size_ |-> U64(50)],
     [offset_ |-> U64(150), size_ |-> U64(80)],
     [offset_ |-> U64(0), size_ |-> U64(128)],
     [offset_ |-> <<65534, 65535, 65535, 65535>>,
      size_ |-> <<0, 0, 0, 32768>>]}

Ft_Frame == UNCHANGED <<cacheVars, mtVars, idVars, tblVars, envVars, rb, sep>>

\* set_metaindex_handle(m); set_index_handle(i).
Ft_SetHandles(m, i) ==
    /\ ft.stage = "new"
    /\ ft' = [ft EXCEPT !.stage = "set",
                        !.f = [metaindex_handle_ |-> m, index_handle_ |-> i]]
    /\ Ft_Frame

\* Footer::EncodeTo(&dst) on an empty dst.
Ft_EncodeTo ==
    /\ ft.stage = "set"
    /\ BlockHandle_EncodeAsserts(ft.f.metaindex_handle_)
    /\ BlockHandle_EncodeAsserts(ft.f.index_handle_)
    /\ ft' = [ft EXCEPT !.stage = "encoded",
                        !.dst = Footer_EncodeTo(ft.f, << >>).dst]
    /\ Ft_Frame

\* Strings a caller may hold in dst before Footer::EncodeTo(&dst).
FtBefore ==
    {<< >>, <<7>>, <<7, 9>>, [i \in 1 .. 2 * kMaxEncodedLength + 1 |-> 7]}

\* Footer::EncodeTo(&dst) on a dst holding `before`; ok tells whether the
\* closing assert holds.
Ft_EncodeToAppend(before) ==
    /\ ft.stage = "set"
    /\ BlockHandle_EncodeAsserts(ft.f.metaindex_handle_)
    /\ BlockHandle_EncodeAsserts(ft.f.index_handle_)
    /\ LET r == Footer_EncodeTo(ft.f, before)
       IN ft' = [ft EXCEPT !.stage = "appended",
                           !.before = before,
                           !.dst = r.dst,
                           !.ok = r.ok]
    /\ Ft_Frame

\* A byte of the two handles and their padding comes back from storage
\* with its top bit set, bytes later than the ones damaged before.
Ft_DamageHandles(pos) ==
    /\ ft.stage = "encoded"
    /\ ~ft.mdamaged
    /\ ft.hdamaged < MaxDamage
    /\ pos > ft.lastpos
    /\ ft.dst[pos] # 128
    /\ ft' = [ft EXCEPT !.hdamaged = @ + 1,
                        !.lastpos = pos,
                        !.dst[pos] = 128]
    /\ Ft_Frame

\* A byte of the magic number comes back from storage as another byte.
Ft_DamageMagic(pos, byte) ==
    /\ ft.stage = "encoded"
    /\ ~ft.mdamaged
    /\ ft.dst[pos] # byte
    /\ ft' = [ft EXCEPT !.mdamaged = TRUE, !.dst[pos] = byte]
    /\ Ft_Frame

\* Footer::DecodeFrom(&input) on a footer target, input holding the bytes
\* read back and whatever follows them in the Slice.
Ft_DecodeFrom(target, extra) ==
    /\ ft.stage = "encoded"
    /\ LET r == Footer_DecodeFrom(target, ft.dst \o extra)
       IN ft' = [ft EXCEPT !.stage = "decoded",
                           !.given = ft.dst \o extra,
                           !.target = target,
                           !.status = r.status,
                           !.g = r.f,
                           !.input = r.input]
    /\ Ft_Frame

FtNext ==
    \/ \E m \in FtHandles, i \in FtHandles : Ft_SetHandles(m, i)
    \/ Ft_EncodeTo
    \/ \E before \in FtBefore : Ft_EncodeToAppend(before)
    \/ \E pos \in 1 .. 2 * kMaxEncodedLength : Ft_DamageHandles(pos)
    \/ \E pos \in 2 * kMaxEncodedLength + 1 .. kEncodedLength,
           byte \in {0, 128} : Ft_DamageMagic(pos, byte)
    \/ Ft_DecodeFrom(Footer_New, << >>)
    \/ Ft_DecodeFrom(ft.f, <<7>>)

SpecFt == Init /\ [][FtNext]_vars

\* The bytes of the magic number in the file, first to last.
MagicBytes == <<87, 251, 128, 139, 36, 117, 71, 219>>

FtDecoded == ft.stage = "decoded"

FtMagicGiven ==
    SubSeq(ft.given, kEncodedLength - 7, kEncodedLength) = MagicBytes

\* C23: EncodeTo into an empty buffer yields exactly 48 bytes whatever the
\* encoded lengths of the handles, and DecodeFrom of these bytes succeeds
\* and gives back the two handles.
C23_FooterRoundTrip ==
    /\ ft.stage \in {"encoded", "decoded"} => Len(ft.dst) = 48
    /\ (FtDecoded /\ ft.hdamaged = 0 /\ ~ft.mdamaged) =>
           /\ ft.status = "OK"
           /\ ft.g = ft.f

\* The longest handle, 20 bytes, and a handle of 3 bytes came back.
C23_Witness ==
    /\ FtDecoded /\ ft.hdamaged = 0 /\ ~ft.mdamaged
    /\ ft.f.metaindex_handle_.offset_ = <<65534, 65535, 65535, 65535>>
    /\ ft.f.index_handle_.size_ = U64(128)
    /\ ft.g = ft.f
    /\ ft.target # ft.f

\* C24: DecodeFrom on a footer whose last 8 bytes differ from the magic
\* number returns Corruption whatever the first 40 bytes hold, and leaves
\* both handles and the input as they were.
C24_BadMagicRejected ==
    (FtDecoded /\ ~FtMagicGiven) =>
        /\ ft.status = "Corruption"
        /\ ft.g = ft.target
        /\ ft.input = ft.given

\* The last byte of the magic differs, a handle byte was damaged too, and
\* the footer decoded into had handles set.
C24_Witness ==
    /\ FtDecoded
    /\ ft.given[kEncodedLength] # MagicBytes[8]
    /\ ft.hdamaged = 1
    /\ ft.target # Footer_New
    /\ ft.status = "Corruption"

\* Where the varint64 starting after byte pos of s ends: after at most 10
\* bytes, the last one the first without the top bit; -1 when there is no
\* such byte or pos is -1.
VarintEnd(s, pos) ==
    IF pos < 0 THEN -1
    ELSE LET ends == {k \in 1 .. 10 :
                         /\ pos + k <= Len(s)
                         /\ s[pos + k] < 128
                         /\ \A j \in 1 .. k - 1 : s[pos + j] >= 128}
         IN IF ends = {} THEN -1 ELSE pos + (CHOOSE k \in ends : TRUE)

\* The end of the metaindex handle and of the index handle in the input.
FtMetaEnd == VarintEnd(ft.given, VarintEnd(ft.given, 0))

FtIndexEnd == VarintEnd(ft.given, VarintEnd(ft.given, FtMetaEnd))

\* C25: with the right magic, DecodeFrom returns Corruption exactly when
\* the metaindex handle or, after it, the index handle is not two varint64;
\* when the metaindex handle is not, the index handle is left as it was; on
\* success the input is what follows the 48 bytes.
C25_HandleFailurePropagates ==
    (FtDecoded /\ FtMagicGiven) =>
        /\ ft.status = "Corruption" <=> FtIndexEnd < 0
        /\ ft.status \in {"OK", "Corruption"}
        /\ FtMetaEnd < 0 => ft.g.index_handle_ = ft.target.index_handle_
        /\ ft.status = "OK" =>
               ft.input = SubSeq(ft.given, 49, Len(ft.given))

\* The metaindex handle was read and the index handle was not.
C25_Witness ==
    /\ FtDecoded /\ FtMagicGiven
    /\ FtMetaEnd > 0 /\ FtIndexEnd < 0
    /\ ft.status = "Corruption"
    /\ ft.g.metaindex_handle_ = ft.f.metaindex_handle_

(***************************************************************************)
(* ReadBlock on a file holding one block (SpecRb).                         *)
(***************************************************************************)
\* Blocks as <<bytes, type>>: uncompressed ones, compressed streams that
\* are well formed (a length and as many bytes) and that are not, and one
\* of a type that is none of the two.
RbBlocks ==
    {<<<< >>, kNoCompression>>, <<<<5>>, kNoCompression>>,
     <<<<5, 6>>, kNoCompression>>,
     <<<<0>>, kSnappyCompression>>, <<<<1, 5>>, kSnappyCompression>>,
     <<<<2, 5, 6>>, kSnappyCompression>>,
     <<<<2, 5>>, kSnappyCompression>>, <<<< >>, kSnappyCompression>>,
     <<<<128>>, kSnappyCompression>>,
     <<<<5>>, 2>>}

Rb_Frame == UNCHANGED <<cacheVars, mtVars, idVars, tblVars, envVars, ft, sep>>

\* The table builder writes a block after the bytes before: the block, its
\* type and the masked crc of the two; the handle is (offset, size).
Rb_Write(before, block) ==
    /\ rb.stage = "new"
    /\ rb' = [rb EXCEPT
                 !.stage = "written",
                 !.file = before \o block[1] \o <<block[2]>>
                          \o EncodeFixed32Words(crc32c_Mask(
                                 crc32c_Value(block[1] \o <<block[2]>>))),
                 !.offset = Len(before),
                 !.n = Len(block[1])]
    /\ Rb_Frame

\* A byte of the file comes back with its lowest bit changed, bytes later
\* than the ones changed before.
Rb_Flip(pos) ==
    /\ rb.stage = "written"
    /\ rb.flips < MaxDamage
    /\ pos > rb.lastpos /\ pos <= Len(rb.file)
    /\ rb' = [rb EXCEPT !.flips = @ + 1,
                        !.lastpos = pos,
                        !.file[pos] = IF @ % 2 = 0 THEN @ + 1 ELSE @ - 1]
    /\ Rb_Frame

\* The file lost its last byte.
Rb_Truncate ==
    /\ rb.stage = "written"
    /\ ~rb.truncated
    /\ rb.lastpos < Len(rb.file)
    /\ rb' = [rb EXCEPT !.truncated = TRUE,
                        !.file = Take(@, Len(@) - 1)]
    /\ Rb_Frame

\* ReadBlock(file, options, handle, &result) on a file opened with pread
\* or mapped.
Rb_ReadBlock(kind, verify_checksums, fails) ==
    /\ rb.stage = "written"
    /\ kind = "mmap" => ~fails
    /\ LET read == IF kind = "pread"
                   THEN PosixRandomAccessFile_Read(
                            rb.file, rb.offset, rb.n + kBlockTrailerSize,
                            fails)
                   ELSE PosixMmapReadableFile_Read(
                            rb.file, rb.offset, rb.n + kBlockTrailerSize)
           r == ReadBlock(read, verify_checksums, rb.n)
       IN rb' = [rb EXCEPT !.stage = "read",
                           !.verify_checksums = verify_checksums,
                           !.read = read,
                           !.s = r.s,
                           !.result = r.result]
    /\ Rb_Frame

RbNext ==
    \/ \E before \in {<< >>, <<9>>}, block \in RbBlocks :
           Rb_Write(before, block)
    \/ \E pos \in 1 .. 1 + 3 + kBlockTrailerSize : Rb_Flip(pos)
    \/ Rb_Truncate
    \/ \E kind \in {"pread", "mmap"}, verify_checksums \in BOOLEAN,
           fails \in BOOLEAN : Rb_ReadBlock(kind, verify_checksums, fails)

SpecRb == Init /\ [][RbNext]_vars

\* The last ReadBlock and what the byte source gave it.
RbRead == rb.stage = "read"

RbWhole == rb.read.s.code = "OK" /\ Len(rb.read.contents) = rb.n + 5

RbType == rb.read.contents[rb.n + 1]

\* The checksum the block stores differs from the one of its bytes.
RbMismatch ==
    crc32c_Unmask(DecodeFixed32Words(rb.read.contents, rb.n + 1))
        # crc32c_Value(SubSeq(rb.read.contents, 1, rb.n + 1))

\* The n bytes are no length followed by as many bytes.
RbMalformed ==
    ~\E k \in 0 .. rb.n :
        /\ VarintLength(k) + k = rb.n
        /\ SubSeq(rb.read.contents, 1, VarintLength(k)) = EncodeVarint32(k)

\* C26: ReadBlock reports the first of: the error of the byte source, as
\* it is; fewer or more bytes than handle.size + 5; a checksum mismatch
\* when verification is on; a malformed compressed stream or a type that
\* is not known.  On each of them the result is empty, not cachable and
\* not heap-allocated.
C26_FirstFailureReported ==
    RbRead =>
        /\ rb.s =
              IF rb.read.s.code # "OK" THEN rb.read.s
              ELSE IF Len(rb.read.contents) # rb.n + 5
              THEN Corruption("truncated block read")
              ELSE IF rb.verify_checksums /\ RbMismatch
              THEN Corruption("block checksum mismatch")
              ELSE IF RbType = kSnappyCompression /\ RbMalformed
              THEN Corruption("corrupted compressed block contents")
              ELSE IF RbType \notin {kNoCompression, kSnappyCompression}
              THEN Corruption("bad block type")
              ELSE OK
        /\ rb.s.code # "OK" =>
               rb.result = [data |-> << >>, cachable |-> FALSE,
                            heap_allocated |-> FALSE]

\* The type byte was changed to one not known, which also breaks the
\* checksum: the mismatch is what is reported.
C26_Witness ==
    /\ RbRead /\ RbWhole
    /\ rb.verify_checksums /\ RbMismatch
    /\ RbType \notin {kNoCompression, kSnappyCompression}
    /\ rb.s = Corruption("block checksum mismatch")

\* C27: with verify_checksums set ReadBlock does not return OK for a block
\* whose stored checksum, unmasked, differs from the checksum of its data
\* and type byte; with verify_checksums not set, status and contents are
\* those of the same block with any other stored checksum.
C27_ChecksumEnforced ==
    (RbRead /\ RbWhole) =>
        /\ (rb.verify_checksums /\ RbMismatch) => rb.s.code # "OK"
        /\ ~rb.verify_checksums =>
               \A crc \in {<<0, 0, 0, 0>>, <<255, 255, 255, 255>>} :
                   [s |-> rb.s, result |-> rb.result]
                       = ReadBlock(
                             [rb.read EXCEPT !.contents =
                                 SubSeq(@, 1, rb.n + 1) \o crc],
                             FALSE, rb.n)

\* An uncompressed block with a byte of the stored checksum changed and
\* nothing else, read with verification.
C27_Witness ==
    /\ RbRead /\ RbWhole
    /\ rb.verify_checksums /\ RbMismatch
    /\ rb.flips = 1 /\ rb.lastpos > rb.offset + rb.n + 1
    /\ RbType = kNoCompression
    /\ rb.s.code = "Corruption"

\* C28: a successful read of an uncompressed block is cachable and
\* heap-allocated exactly when the byte source delivered the data in the
\* buffer ReadBlock passed, and neither when it pointed elsewhere; a block
\* that was decompressed is both, and as long as the stream declares.
C28_OwnershipOfResult ==
    (RbRead /\ rb.s.code = "OK") =>
        /\ RbType = kNoCompression =>
               /\ rb.result.cachable <=> rb.read.in_scratch
               /\ rb.result.heap_allocated <=> rb.read.in_scratch
               /\ rb.result.data = SubSeq(rb.read.contents, 1, rb.n)
        /\ RbType = kSnappyCompression =>
               /\ rb.result.cachable /\ rb.result.heap_allocated
               /\ Len(rb.result.data) = rb.read.contents[1]
        /\ RbType \in {kNoCompression, kSnappyCompression}

\* An uncompressed block of two bytes read from a mapped file.
C28_Witness ==
    /\ RbRead /\ rb.s.code = "OK"
    /\ RbType = kNoCompression
    /\ ~rb.read.in_scratch
    /\ rb.result = [data |-> <<5, 6>>, cachable |-> FALSE,
                    heap_allocated |-> FALSE]

(***************************************************************************)
(* The invariant of a cache shard, single caller (Spec).                   *)
(***************************************************************************)
\* The entries of the index of shard s, chain after chain.
IndexSeq(s) == Flatten(shard_[s].table_.list_)

\* C30: in every state between two calls, callers releasing each handle
\* once, the index and the LRU list of a shard hold the same entries, each
\* once and at most one per key, and an entry not yet freed has as many
\* references as handles the callers hold on it, plus one if it is in the
\* index; that number is at least 1.
C30_ShardInvariant ==
    /\ \A s \in ShardIds :
           /\ IndexSet(s) = ListSet(s)
           /\ Len(IndexSeq(s)) = Cardinality(IndexSet(s))
           /\ Len(shard_[s].lru_) = Cardinality(ListSet(s))
           /\ \A h, g \in IndexSet(s) :
                  heap[h].key = heap[g].key => h = g
           /\ \A h \in IndexSet(s) : Live(h)
    /\ \A h \in Handles :
           Live(h) =>
               /\ heap[h].refs = (IF InIndex(h) THEN 1 ELSE 0) + held[h]
               /\ heap[h].refs >= 1
    /\ \A h \in Handles : ~Live(h) => held[h] = 0 /\ ~InIndex(h)

\* Two entries not yet freed: one out of the index with one handle on it,
\* one in the index with none.
C30_Witness ==
    \E h, g \in Handles :
        /\ Live(h) /\ ~InIndex(h) /\ held[h] = 1 /\ heap[h].refs = 1
        /\ Live(g) /\ InIndex(g) /\ held[g] = 0 /\ heap[g].refs = 1

\* Sum of the charges of the entries of shard s that are not freed and
\* satisfy P.
ChargeOf(s, P(_)) ==
    SumTo([h \in Handles |->
              IF Live(h) /\ Shard(heap[h].hash) = s /\ P(h)
              THEN heap[h].charge ELSE 0], MaxEntries)

\* C31: in every state between two calls the usage of a shard is the sum of
\* the charges of the entries inserted into it and not yet freed, those
\* that left the index (evicted, erased, replaced) while a caller holds
\* them included.
C31_UsageIsLiveCharge ==
    \A s \in ShardIds :
        shard_[s].usage_ = ChargeOf(s, LAMBDA h : TRUE)

\* An entry a caller holds has left the index and still counts in the
\* usage, next to an entry of the index.
C31_Witness ==
    \E h, g \in Handles :
        /\ Live(h) /\ ~InIndex(h) /\ held[h] > 0
        /\ Live(g) /\ InIndex(g)
        /\ shard_[Shard(heap[h].hash)].usage_
               = heap[h].charge + heap[g].charge

\* C32: after every call the charges of the entries in the index of a shard
\* sum to at most its capacity; whenever the usage is above the capacity,
\* index and LRU list of the shard are empty and the usage is the sum of
\* the charges of entries only callers hold.
C32_IndexedChargeWithinCapacity ==
    \A s \in ShardIds :
        /\ ChargeOf(s, LAMBDA h : h \in IndexSet(s)) <= shard_[s].capacity_
        /\ shard_[s].usage_ > shard_[s].capacity_ =>
               /\ IndexSet(s) = {}
               /\ shard_[s].lru_ = << >>
               /\ shard_[s].usage_ =
                      ChargeOf(s, LAMBDA h : held[h] > 0 /\ ~InIndex(h))

\* A call other than Insert has returned with the usage above the capacity.
C32_Witness ==
    /\ last.op \in {"Lookup", "Erase", "Release"}
    /\ \E s \in ShardIds :
           /\ shard_[s].usage_ > shard_[s].capacity_
           /\ IndexSet(s) = {}
           /\ \E h \in Handles : held[h] > 0 /\ Shard(heap[h].hash) = s

\* C33 as claimed: Footer::EncodeTo appends exactly 48 bytes to dst
\* whatever dst held before: its closing assert
\* dst->size() == original_size + kEncodedLength holds and the bytes dst
\* held are still its first bytes.
C33_EncodeToAppends ==
    ft.stage = "appended" =>
        /\ ft.ok
        /\ Len(ft.dst) = Len(ft.before) + kEncodedLength
        /\ Take(ft.dst, Len(ft.before)) = ft.before

(***************************************************************************)
(* The restart offsets of a BlockBuilder (SpecBB).                         *)
(***************************************************************************)
RECURSIVE RecordHeads(_, _, _)
\* Where each record of data[pos + 1 .. limit] begins and the shared length
\* it stores.
RecordHeads(data, pos, limit) ==
    IF pos >= limit THEN << >>
    ELSE LET shared == GetVarint32(data, pos, limit)
             non_shared == GetVarint32(data, shared.next, limit)
             value_length == GetVarint32(data, non_shared.next, limit)
         IN <<[offset |-> pos, shared |-> shared.value]>>
            \o RecordHeads(data,
                           value_length.next + non_shared.value
                               + value_length.value,
                           limit)

\* The record heads of the builder's buffer, the restart array of a
\* finished block left out.
BBHeads ==
    RecordHeads(bb.b.buffer_, 0,
                IF bb.b.finished_ THEN bb.data_size ELSE Len(bb.b.buffer_))

\* The restart offsets are strictly increasing and start with 0, the
\* counter is within 1 .. R once a record was added, and no record shares
\* more than the length of the key added before it.
BBRestartsOrdered ==
    /\ bb.b.restarts_[1] = 0
    /\ \A j \in 1 .. Len(bb.b.restarts_) - 1 :
           bb.b.restarts_[j] < bb.b.restarts_[j + 1]
    /\ bb.added # << >> => bb.b.counter_ \in 1 .. bb.interval
    /\ Len(BBHeads) = Len(bb.added)
    /\ \A i \in 1 .. Len(BBHeads) :
           BBHeads[i].shared <= (IF i = 1 THEN 0 ELSE Len(bb.added[i - 1][1]))

\* Restart offset j is where record (j - 1) * R begins, a record of
\* shared length 0.
BBRestartAtRecord(j) ==
    LET i == (j - 1) * bb.interval + 1
    IN /\ i <= Len(BBHeads)
       /\ BBHeads[i].offset = bb.b.restarts_[j]
       /\ BBHeads[i].shared = 0

\* C34 as claimed: in every state of a BlockBuilder the restart offsets are
\* strictly increasing and start with 0, each is the buffer position where
\* a record with shared = 0 begins, one for each of the records numbered
\* 0, R, 2R, ..., the counter is within 1 .. R after any Add, and no
\* record shares more than the length of the key added before it.
C34_RestartOffsets ==
    /\ BBRestartsOrdered
    /\ Len(bb.b.restarts_) = Ceil(Len(bb.added), bb.interval)
    /\ \A j \in 1 .. Len(bb.b.restarts_) : BBRestartAtRecord(j)

\* C34: the constructor and Reset record the restart offset 0; of the Add
\* calls since then, numbered from 0, exactly those numbered R, 2R, ...
\* record a new one.  In every state the offsets are strictly increasing
\* and start with 0; once a record was added, offset j is where the record
\* numbered (j - 1) * R begins, with shared = 0, and the counter is within
\* 1 .. R; no record shares more than the length of the key added before
\* it.
C34_RestartOffsetsAfterAdd ==
    /\ [](/\ BBRestartsOrdered
          /\ IF bb.added = << >>
             THEN bb.b.restarts_ = <<0>>
             ELSE /\ Len(bb.b.restarts_)
                        = Ceil(Len(bb.added), bb.interval)
                  /\ \A j \in 1 .. Len(bb.b.restarts_) :
                         BBRestartAtRecord(j))
    /\ [][(Len(bb'.added) = Len(bb.added) + 1) =>
             (Len(bb'.b.restarts_) =
                  Len(bb.b.restarts_)
                  + (IF Len(bb.added) > 0
                        /\ Len(bb.added) % bb.interval = 0
                     THEN 1 ELSE 0))]_vars

\* abc, abd, abe added with R = 2: shared lengths 0, 2, 0 and a second
\* restart offset where the third record begins.
C34_Witness ==
    /\ ~bb.aborted
    /\ bb.interval = 2
    /\ Len(bb.added) = 3
    /\ bb.added[1][1] = <<97, 98, 99>>
    /\ bb.added[2][1] = <<97, 98, 100>>
    /\ bb.added[3][1] = <<97, 98, 101>>
    /\ [i \in 1 .. 3 |-> BBHeads[i].shared] = <<0, 2, 0>>
    /\ Len(bb.b.restarts_) = 2
    /\ bb.b.restarts_[2] = BBHeads[3].offset

(***************************************************************************)
(* The layout of a finished filter block (SpecFB).                         *)
(***************************************************************************)
\* The number of filters the builder generated.
FBFilters == Len(fb.f.filter_offsets_)

\* Entry i of the offset table of a block, the total length being entry k.
FBOffsetAt(contents, i) ==
    DecodeFixed32(contents, StatedTotal(contents) + 4 * i)

RECURSIVE FBConcatFilters(_, _, _)
\* Filters i .. k - 1 of a block, one after the other.
FBConcatFilters(contents, i, k) ==
    IF i >= k THEN << >>
    ELSE BlockFilter(contents, i) \o FBConcatFilters(contents, i + 1, k)

SeekTag == mem.last.lkey[Len(mem.last.lkey) - 7]

\* C36 as claimed: the type LookupKey packs into its tag is the smallest
\* type value: no type PackSequenceAndType accepts (value, deletion) is
\* smaller.
C36_SeekTypeSmallest ==
    mem.last.op = "Get" =>
        \A t \in ValueTypes :
            PackSequenceAndType_Asserts(U64(mem.last.sequence), t)
                => t >= SeekTag

\* C36: the type LookupKey packs into its tag is the largest type value
\* PackSequenceAndType accepts: value and deletion are accepted, no
\* accepted type is greater, and deletion is smaller.
C36_SeekTypeLargest ==
    mem.last.op = "Get" =>
        /\ SeekTag = kValueTypeForSeek
        /\ \A t \in ValueTypes :
               PackSequenceAndType_Asserts(U64(mem.last.sequence), t)
        /\ \A t \in 0 .. 255 :
               PackSequenceAndType_Asserts(U64(mem.last.sequence), t)
                   => t <= SeekTag
        /\ kTypeDeletion < SeekTag

\* A Get at the sequence number of a deletion of its key: the entry lies
\* at or after the LookupKey and is the one Get decodes.
C36_Witness ==
    /\ mem.last.op = "Get"
    /\ SeekTag = kTypeValue
    /\ mem.last.out.ret
    /\ \E e \in mem.adds :
           /\ e.user_key = mem.last.key
           /\ e.sequence = mem.last.sequence
           /\ e.type = kTypeDeletion

(***************************************************************************)
(* FindShortestSeparator and FindShortSuccessor of the                     *)
(* InternalKeyComparator (SpecSep).                                        *)
(***************************************************************************)
\* User keys of up to two bytes.
SepUserKeys ==
    {<< >>} \cup {<<x>> : x \in {97, 98, 255}}
    \cup {<<x, y>> : x \in {97, 98, 255}, y \in {97, 98, 255}}

\* Internal keys of the oldest and of the newest sequence number.
SepKeys ==
    {AppendInternalKey(<< >>, [user_key |-> k, sequence |-> n,
                               type |-> kTypeValue]) :
         k \in SepUserKeys, n \in {1, MaxSeq}}

\* What user_comparator_->FindShortestSeparator(&tmp, user_limit) may leave
\* in tmp: the user key of start as it is, or a key not below it and below
\* user_limit.
user_comparator_FindShortestSeparator(user_start, user_limit) ==
    {user_start} \cup
    {t \in SepUserKeys : /\ user_comparator_Compare(user_start, t) <= 0
                         /\ user_comparator_Compare(t, user_limit) < 0}

\* What user_comparator_->FindShortSuccessor(&tmp) may leave in tmp: a key
\* not below the user key.
user_comparator_FindShortSuccessor(user_key) ==
    {t \in SepUserKeys : user_comparator_Compare(user_key, t) <= 0}

Sep_Frame == UNCHANGED <<cacheVars, mtVars, idVars, tblVars, envVars, ft, rb>>

\* InternalKeyComparator::FindShortestSeparator(&start, limit) for start
\* before limit.
Sep_FindShortestSeparator(start, limit, tmp) ==
    /\ sep.op = "none"
    /\ InternalKeyComparator_Compare(start, limit) < 0
    /\ tmp \in user_comparator_FindShortestSeparator(
                   ExtractUserKey(start), ExtractUserKey(limit))
    /\ LET r == InternalKeyComparator_FindShortestSeparator(start, limit, tmp)
       IN sep' = [op |-> "FindShortestSeparator", start |-> start,
                  limit |-> limit, tmp |-> tmp, result |-> r.start,
                  ok |-> r.ok]
    /\ Sep_Frame

\* InternalKeyComparator::FindShortSuccessor(&key).
Sep_FindShortSuccessor(key, tmp) ==
    /\ sep.op = "none"
    /\ tmp \in user_comparator_FindShortSuccessor(ExtractUserKey(key))
    /\ LET r == InternalKeyComparator_FindShortSuccessor(key, tmp)
       IN sep' = [op |-> "FindShortSuccessor", start |-> key,
                  limit |-> << >>, tmp |-> tmp, result |-> r.key,
                  ok |-> r.ok]
    /\ Sep_Frame

SepNext ==
    \/ \E start \in SepKeys, limit \in SepKeys, tmp \in SepUserKeys :
           Sep_FindShortestSeparator(start, limit, tmp)
    \/ \E key \in SepKeys, tmp \in SepUserKeys :
           Sep_FindShortSuccessor(key, tmp)

SpecSep == Init /\ [][SepNext]_vars

\* The eight bytes of the tag of the maximum sequence number and the seek
\* type.
MaxTagBytes == <<kValueTypeForSeek, 255, 255, 255, 255, 255, 255, 255>>

SepReplaced ==
    /\ sep.result # sep.start
    /\ InternalKeyComparator_Compare(sep.start, sep.result) < 0
    /\ SubSeq(sep.result, Len(sep.result) - 7, Len(sep.result)) = MaxTagBytes

\* C29: with a user comparator whose shortening keeps
\* user_start <= result < user_limit, FindShortestSeparator(start, limit)
\* with start before limit leaves start as it is or replaces it by a key
\* after the old start and before limit, FindShortSuccessor(key) leaves key
\* as it is or replaces it by a greater key; a replacement carries the
\* maximum sequence number and the seek type, and no assert fails.
C29_SeparatorKeepsOrder ==
    /\ sep.op = "FindShortestSeparator" =>
           /\ sep.ok
           /\ \/ sep.result = sep.start
              \/ /\ SepReplaced
                 /\ InternalKeyComparator_Compare(sep.result, sep.limit) < 0
    /\ sep.op = "FindShortSuccessor" =>
           /\ sep.ok
           /\ sep.result = sep.start \/ SepReplaced

\* "aa" before "bb", the user comparator shortening "aa" to "b": start is
\* replaced by "b" with the tag of the maximum sequence number.
C29_Witness ==
    /\ sep.op = "FindShortestSeparator"
    /\ ExtractUserKey(sep.start) = <<97, 97>>
    /\ ExtractUserKey(sep.limit) = <<98, 98>>
    /\ sep.tmp = <<98>>
    /\ sep.result = <<98>> \o MaxTagBytes
    /\ sep.ok

(***************************************************************************)
(* PosixEnv::Schedule called by several threads, and PosixEnv::BGThread    *)
(* (SpecEnv, SpecEnvLive).  pc of a caller: idle, lock, start, signal,     *)
(* push, unlock; of the background thread: none (not created), lock,       *)
(* check, waiting (in pthread_cond_wait), woken (signalled, mu_ not yet    *)
(* taken again), pop, unlock, run.  pthread_cond_wait returns only after   *)
(* a signal.                                                               *)
(***************************************************************************)
BG == "bg"

Env_Frame == UNCHANGED <<cacheVars, mtVars, idVars, tblVars, fmtVars, lim>>

\* A thread calls Schedule(function, arg); the functions are numbered in
\* the order of the calls.
Sch_Call(t) ==
    /\ env.pc[t] = "idle"
    /\ env.calls < MaxSchedules
    /\ env' = [env EXCEPT !.pc[t] = "lock",
                          !.calls = @ + 1,
                          !.function[t] = env.calls + 1]
    /\ Env_Frame

\* pthread_mutex_lock(&mu_) in Schedule.
Sch_Lock(t) ==
    /\ env.pc[t] = "lock"
    /\ env.mu_ = NoThread
    /\ env' = [env EXCEPT !.pc[t] = "start",
                          !.mu_ = t,
                          !.locked = Append(@, env.function[t])]
    /\ Env_Frame

\* if (!started_bgthread_) { started_bgthread_ = true; pthread_create }.
Sch_StartThread(t) ==
    /\ env.pc[t] = "start"
    /\ env' = IF ~env.started_bgthread_
              THEN [env EXCEPT !.pc[t] = "signal",
                               !.started_bgthread_ = TRUE,
                               !.created = @ + 1,
                               !.bgpc = "lock"]
              ELSE [env EXCEPT !.pc[t] = "signal"]
    /\ Env_Frame

\* Schedule that never signals.
Sch_Signal_Never(t) ==
    /\ env.pc[t] = "signal"
    /\ env' = [env EXCEPT !.pc[t] = "push"]
    /\ Env_Frame

\* if (queue_.empty()) pthread_cond_signal(&bgsignal_): a thread waiting on
\* the condition variable is woken, no waiting thread: no effect.
Sch_Signal(t) ==
    /\ env.pc[t] = "signal"
    /\ env' = IF env.queue_ = << >> /\ env.bgpc = "waiting"
              THEN [env EXCEPT !.pc[t] = "push",
                               !.bgpc = "woken",
                               !.wakeups = @ + 1]
              ELSE [env EXCEPT !.pc[t] = "push"]
    /\ Env_Frame

\* queue_.push_back(BGItem()) with function and arg.
Sch_Push(t) ==
    /\ env.pc[t] = "push"
    /\ env' = [env EXCEPT !.pc[t] = "unlock",
                          !.queue_ = Append(@, env.function[t])]
    /\ Env_Frame

\* pthread_mutex_unlock(&mu_) and return from Schedule.
Sch_Unlock(t) ==
    /\ env.pc[t] = "unlock"
    /\ env' = [env EXCEPT !.pc[t] = "idle", !.mu_ = NoThread]
    /\ Env_Frame

\* BGThread: pthread_mutex_lock(&mu_) at the head of the outer loop.
BG_Lock ==
    /\ env.bgpc = "lock"
    /\ env.mu_ = NoThread
    /\ env' = [env EXCEPT !.bgpc = "check", !.mu_ = BG]
    /\ Env_Frame

\* while (queue_.empty()) pthread_cond_wait(&bgsignal_, &mu_): the wait
\* releases mu_.
BG_Check ==
    /\ env.bgpc = "check"
    /\ env' = IF env.queue_ = << >>
              THEN [env EXCEPT !.bgpc = "waiting", !.mu_ = NoThread]
              ELSE [env EXCEPT !.bgpc = "pop"]
    /\ Env_Frame

\* pthread_cond_wait returns: the signalled thread has mu_ again.
BG_Wake ==
    /\ env.bgpc = "woken"
    /\ env.mu_ = NoThread
    /\ env' = [env EXCEPT !.bgpc = "check", !.mu_ = BG]
    /\ Env_Frame

\* BGThread taking the item pushed last.
BG_Pop_Back ==
    /\ env.bgpc = "pop"
    /\ env' = [env EXCEPT !.bgpc = "unlock",
                          !.running = env.queue_[Len(env.queue_)],
                          !.queue_ = Take(@, Len(@) - 1)]
    /\ Env_Frame

\* function = queue_.front().function; arg = ...; queue_.pop_front().
BG_Pop ==
    /\ env.bgpc = "pop"
    /\ env' = [env EXCEPT !.bgpc = "unlock",
                          !.running = Head(env.queue_),
                          !.queue_ = Tail(@)]
    /\ Env_Frame

\* pthread_mutex_unlock(&mu_); (*function)(arg) is entered.
BG_Unlock ==
    /\ env.bgpc = "unlock"
    /\ env' = [env EXCEPT !.bgpc = "run", !.mu_ = NoThread]
    /\ Env_Frame

\* (*function)(arg) returns; back to the head of the outer loop.
BG_Return ==
    /\ env.bgpc = "run"
    /\ env' = [env EXCEPT !.bgpc = "lock",
                          !.ran = Append(@, env.running),
                          !.running = 0]
    /\ Env_Frame

EnvNext ==
    \/ \E t \in Threads : Sch_Call(t)
    \/ \E t \in Threads : Sch_Lock(t)
    \/ \E t \in Threads : Sch_StartThread(t)
    \/ \E t \in Threads : Sch_Signal(t)
    \/ \E t \in Threads : Sch_Push(t)
    \/ \E t \in Threads : Sch_Unlock(t)
    \/ BG_Lock
    \/ BG_Check
    \/ BG_Wake
    \/ BG_Pop
    \/ BG_Unlock
    \/ BG_Return

SpecEnv == Init /\ [][EnvNext]_vars

\* Threads are scheduled fairly and every scheduled function returns: a
\* step of Schedule past its call, or of BGThread, that stays possible is
\* taken.  When a thread calls Schedule is up to the thread.
EnvFairness ==
    /\ \A t \in Threads :
           /\ WF_vars(Sch_Lock(t))
           /\ WF_vars(Sch_StartThread(t))
           /\ WF_vars(Sch_Signal(t))
           /\ WF_vars(Sch_Push(t))
           /\ WF_vars(Sch_Unlock(t))
    /\ WF_vars(BG_Lock)
    /\ WF_vars(BG_Check)
    /\ WF_vars(BG_Wake)
    /\ WF_vars(BG_Pop)
    /\ WF_vars(BG_Unlock)
    /\ WF_vars(BG_Return)

SpecEnvLive == SpecEnv /\ EnvFairness

\* C37: every function passed to Schedule, by whichever thread, is
\* eventually executed by the background thread, when threads are scheduled
\* fairly and every scheduled function returns.
C37_ScheduledEventuallyRuns ==
    \A i \in 1 .. MaxSchedules :
        (env.calls >= i) ~> (i \in SeqSet(env.ran))

\* The background thread was woken from its wait at least twice and every
\* function passed to Schedule has run.
C37_Witness ==
    /\ env.calls = MaxSchedules
    /\ Len(env.ran) = MaxSchedules
    /\ env.wakeups >= 2
    /\ env.bgpc = "waiting"

\* C38: the functions passed to Schedule run one at a time, in the order in
\* which their Schedule calls took mu_, each once, on a background thread
\* created at most once; mu_ is not held by it while a function runs.
C38_RunInLockOrder ==
    /\ env.created <= 1
    /\ env.created = 1 <=> env.started_bgthread_
    /\ env.ran \o (IF env.running # 0 THEN <<env.running>> ELSE << >>)
           \o env.queue_
       = SubSeq(env.locked, 1,
                Len(env.ran) + Len(env.queue_)
                    + (IF env.running # 0 THEN 1 ELSE 0))
    /\ Len(env.locked) - (Len(env.ran) + Len(env.queue_)
                           + (IF env.running # 0 THEN 1 ELSE 0)) \in {0, 1}
    /\ Len(env.locked) = Cardinality(SeqSet(env.locked))
    /\ env.bgpc = "run" => (env.mu_ # BG /\ env.running # 0)
    /\ env.bgpc \notin {"unlock", "run"} => env.running = 0

\* Two threads called Schedule in one order and took mu_ in the other; the
\* functions ran in the order of mu_.
C38_Witness ==
    /\ env.locked = <<2, 1, 3>>
    /\ env.ran = <<2, 1, 3>>
    /\ env.created = 1

(***************************************************************************)
(* MmapLimiter used by several threads (SpecLim).  pc of a thread: idle,   *)
(* lock and locked (in Acquire), rlock and rlocked (in Release).           *)
(***************************************************************************)
\* Acquire under mu_ that takes a slot without testing x.
MmapLimiter_AcquireLocked_NoTest(allowed) ==
    [allowed |-> allowed - 1, ret |-> TRUE]

\* MmapLimiter::Acquire under mu_: x = GetAllowed(); x <= 0 returns false,
\* else SetAllowed(x - 1) and true.
MmapLimiter_AcquireLocked(allowed) ==
    LET x == allowed
    IN IF x <= 0 THEN [allowed |-> allowed, ret |-> FALSE]
       ELSE [allowed |-> x - 1, ret |-> TRUE]

Lim_Frame == UNCHANGED <<cacheVars, mtVars, idVars, tblVars, fmtVars, env>>

\* MmapLimiter::Acquire, the test before mu_ is taken:
\* if (GetAllowed() <= 0) return false.
Lim_AcquireCheck(t) ==
    /\ lim.pc[t] = "idle"
    /\ lim' = IF lim.allowed_ <= 0
              THEN [lim EXCEPT !.ret[t] = "false"]
              ELSE [lim EXCEPT !.pc[t] = "lock", !.ret[t] = "none"]
    /\ Lim_Frame

\* MutexLock l(&mu_) in Acquire.
Lim_AcquireLock(t) ==
    /\ lim.pc[t] = "lock"
    /\ lim.mu_ = NoThread
    /\ lim' = [lim EXCEPT !.pc[t] = "locked", !.mu_ = t]
    /\ Lim_Frame

\* The rest of Acquire; the return releases mu_.  A true return gives the
\* caller a slot.
Lim_AcquireLocked(t) ==
    /\ lim.pc[t] = "locked"
    /\ LET r == MmapLimiter_AcquireLocked(lim.allowed_)
       IN lim' = [lim EXCEPT !.pc[t] = "idle",
                             !.mu_ = NoThread,
                             !.allowed_ = r.allowed,
                             !.ret[t] = IF r.ret THEN "true" ELSE "false",
                             !.slots[t] = IF r.ret THEN @ + 1 ELSE @]
    /\ Lim_Frame

\* MutexLock l(&mu_) in Release, called for a slot the thread got from an
\* Acquire that returned true.
Lim_ReleaseLock(t) ==
    /\ lim.pc[t] = "idle"
    /\ lim.slots[t] > 0
    /\ lim.mu_ = NoThread
    /\ lim' = [lim EXCEPT !.pc[t] = "rlocked", !.mu_ = t, !.ret[t] = "none"]
    /\ Lim_Frame

\* SetAllowed(GetAllowed() + 1); the return releases mu_.
Lim_ReleaseLocked(t) ==
    /\ lim.pc[t] = "rlocked"
    /\ lim' = [lim EXCEPT !.pc[t] = "idle",
                          !.mu_ = NoThread,
                          !.allowed_ = @ + 1,
                          !.slots[t] = @ - 1]
    /\ Lim_Frame

LimNext ==
    \/ \E t \in Threads : Lim_AcquireCheck(t)
    \/ \E t \in Threads : Lim_AcquireLock(t)
    \/ \E t \in Threads : Lim_AcquireLocked(t)
    \/ \E t \in Threads : Lim_ReleaseLock(t)
    \/ \E t \in Threads : Lim_ReleaseLocked(t)

\* The limiter starts with any limit from 0.
InitLim ==
    /\ CacheInit /\ MTInit /\ IdInit /\ TblInit(1, FALSE)
    /\ FtInit /\ RbInit /\ SepInit /\ EnvInit
    /\ \E limit \in 0 .. MaxSlots : LimInit(limit)

SpecLim == InitLim /\ [][LimNext]_vars

RECURSIVE SumSlots(_, _)
\* Slots the threads of S hold.
SumSlots(slots, S) ==
    IF S = {} THEN 0
    ELSE LET t == CHOOSE u \in S : TRUE
         IN slots[t] + SumSlots(slots, S \ {t})

LimHeld == SumSlots(lim.slots, Threads)

\* C39: under every interleaving of Acquire and Release, each Release for
\* a slot an Acquire gave, the number of available slots is never below 0,
\* available slots plus slots held is the initial limit, and Acquire
\* returns true exactly when it took a slot.
C39_SlotsConserved ==
    /\ [](/\ lim.allowed_ >= 0
          /\ lim.allowed_ + LimHeld = lim.limit)
    /\ [][\A t \in Threads :
              /\ Lim_AcquireLocked(t) =>
                     IF lim'.ret[t] = "true"
                     THEN /\ lim'.allowed_ = lim.allowed_ - 1
                          /\ lim.allowed_ > 0
                     ELSE /\ lim'.ret[t] = "false"
                          /\ lim'.allowed_ = lim.allowed_
              /\ Lim_AcquireCheck(t) =>
                     /\ lim'.ret[t] # "true"
                     /\ lim'.allowed_ = lim.allowed_
              /\ lim'.allowed_ < lim.allowed_ =>
                     \E u \in Threads : lim'.ret[u] = "true"
                                        /\ lim.ret[u] # "true"
         ]_vars

\* Two threads passed the first test for the last slot; one got it, the
\* other was refused under mu_.
C39_Witness ==
    /\ lim.limit = 1
    /\ lim.allowed_ = 0
    /\ lim.ret["t1"] = "true" /\ lim.slots["t1"] = 1
    /\ lim.ret["t2"] = "false" /\ lim.slots["t2"] = 0
    /\ lim.pc["t1"] = "idle" /\ lim.pc["t2"] = "idle"

==========================================================================
